---- MODULE Spec2Model ----
(***************************************************************************)
(* A model of the Repository class of src/git.py: the object store, HEAD,  *)
(* the branch refs, the index, the merge state and the working directory,  *)
(* with one action per repository operation.                               *)
(*                                                                         *)
(* Object ids.  An id is the SHA-1 of "<kind> <len>\0<payload>"            *)
(* (GitObject.hash).  The model takes the id of an object to be the object *)
(* itself (kind and payload): two objects have the same id exactly when    *)
(* they have the same kind and payload, which is the no-collision reading  *)
(* of SHA-1.  The object store is the set of the objects whose file        *)
(* exists under .git/objects.                                              *)
(*                                                                         *)
(* Working directory.  The working directory is a map from the paths of    *)
(* its files to their contents; directories are not modelled, so no path   *)
(* of Paths is a prefix of another and a write never meets a directory     *)
(* where a file is due (or a file where a directory is due).  The index    *)
(* file with such a pair of paths is modelled for the tree builder alone   *)
(* (SpecTree).                                                             *)
(***************************************************************************)
EXTENDS Integers, Sequences, FiniteSets, TLC

VARIABLES
    objects,     \* .git/objects: the set of stored objects
    HEAD,        \* .git/HEAD: symbolic ("ref: refs/heads/<b>") or a literal id
    heads,       \* .git/refs/heads: branch name -> commit id (existing files only)
    index,       \* .git/index: path -> blob id (a dict)
    MERGE_HEAD,  \* .git/MERGE_HEAD: NoFile or the id written by merge
    MERGE_MSG,   \* .git/MERGE_MSG: NoFile or the message written by merge
    work,        \* the working directory: path -> file content (existing files only)
    now,         \* the clock read by int(time.time())
    last,        \* what the last operation printed / returned
    stash,       \* .git/stash: the list of stash entries, newest first
    tags,        \* .git/refs/tags: tag name -> object id (existing files only)
    pure         \* the arguments and the result of a call of a pure function

vars == <<objects, HEAD, heads, index, MERGE_HEAD, MERGE_MSG, work, now, last,
          stash, tags, pure>>

(***************************************************************************)
(* Bounds of the model.                                                    *)
(***************************************************************************)
\* the most commits with fewer than two parents the store may hold
MaxCommits == 2
\* the most commits with two parents the store may hold
MaxMerges == 1
\* the most paths the user stages between two commits
MaxStaged == 1
\* the last second the clock reaches
MaxTime == 1
\* the longest working file, in lines
MaxFileLen == 5

\* repository-relative paths, as their "/"-separated segments: a and d/b
Paths == {<<"a">>, <<"d", "b">>}
\* file contents the user writes to a path, as sequences of lines
Contents(path) == IF path = <<"a">> THEN {<<"v1">>, <<"v2">>} ELSE {<<"v1">>}
\* branch names used by the operations
BranchNames == {"master", "topic"}
\* commit messages passed to commit(); <<>> is the empty message
Messages == {<<"m">>}

(***************************************************************************)
(* Objects (GitObject and its subclasses).                                 *)
(***************************************************************************)
\* Python's None, and a file that does not exist
None == [kind |-> "none"]
NoFile == None

Blob(content) == [kind |-> "blob", content |-> content]

\* A tree's payload is the concatenation of its entries in sorted order
\* (_serialize_entries), so it is determined by the set of entries.
Tree(entries) == [kind |-> "tree", entries |-> entries]

Commit(tree_hash, parent_hashes, message, timestamp) ==
    [kind |-> "commit", tree_hash |-> tree_hash, parent_hashes |-> parent_hashes,
     message |-> message, timestamp |-> timestamp]

IsCommit(h) == h.kind = "commit"
IsTree(h) == h.kind = "tree"
IsBlob(h) == h.kind = "blob"

\* the empty dict
EmptyMap == <<>>

\* dict.update: d1 overridden by d2
Update(d1, d2) ==
    [k \in (DOMAIN d1) \cup (DOMAIN d2) |-> IF k \in DOMAIN d2 THEN d2[k] ELSE d1[k]]

\* dict.get(k): the value or None
Get(d, k) == IF k \in DOMAIN d THEN d[k] ELSE None

\* d restricted to the keys outside ks
Without(d, ks) == [k \in (DOMAIN d) \ ks |-> d[k]]

\* the commit objects of the store
StoredCommits == {o \in objects : IsCommit(o)}

(***************************************************************************)
(* Object store.                                                           *)
(***************************************************************************)
\* store_object: the file is written only if it does not exist yet
store_object(store, obj) == IF obj \in store THEN store ELSE store \cup {obj}

\* load_object raises FileNotFoundError when the file does not exist
CanLoad(h) == h \in objects

(***************************************************************************)
(* Tree builder and walkers.                                               *)
(***************************************************************************)
\* the first segments of the paths of an index
FirstParts(idx) == {p[1] : p \in DOMAIN idx}

\* paths with more than one segment go to the nested dict dirs[parts[0]]
IsDirName(idx, name) == \E p \in DOMAIN idx : p[1] = name /\ Len(p) > 1

\* the content of dirs[name]: the paths below name, with name stripped
SubIndex(idx, name) ==
    [q \in {Tail(p) : p \in {r \in DOMAIN idx : r[1] = name /\ Len(r) > 1}}
        |-> idx[<<name>> \o q]]

\* create_tree_recursive: a "100644" entry per file, a "40000" entry per
\* directory.  No path of Paths is a prefix of another, so the nested dict
\* the code builds does not depend on the order of the index.
RECURSIVE create_tree_recursive(_)
create_tree_recursive(idx) ==
    Tree({ IF IsDirName(idx, name)
             THEN <<"40000", name, create_tree_recursive(SubIndex(idx, name))>>
             ELSE <<"100644", name, idx[<<name>>]>>
           : name \in FirstParts(idx) })

\* create_tree_from_index, of the index file's content idx: the id returned
create_tree_from_index(idx) ==
    IF idx = EmptyMap THEN Tree({}) ELSE create_tree_recursive(idx)

\* the tree objects create_tree_recursive stores: the tree and its subtrees
RECURSIVE SubTrees(_)
SubTrees(tree) ==
    {tree} \cup UNION {SubTrees(e[3]) : e \in {x \in tree.entries : x[1] = "40000"}}

(***************************************************************************)
(* The tree builder on an index in the order of its file.  The index file  *)
(* is a JSON object and load_index keeps its order, which is the order in  *)
(* which the paths were first added: items is the sequence of its          *)
(* <<path, blob id>> pairs.                                                *)
(***************************************************************************)
\* a nested dict of the builder
Dict(items) == [kind |-> "dict", items |-> items]

\* 'str' object does not support item assignment
TypeError == [kind |-> "TypeError"]

\* the descent of the loop body into dirs: current[part] is created when
\* missing, a str met on the way or at the last step raises TypeError, and
\* the last part is assigned whatever was there
RECURSIVE insert_nested(_, _, _)
insert_nested(current, parts, blob_hash) ==
    IF current.kind # "dict" THEN TypeError
    ELSE IF Len(parts) = 1
    THEN Dict(Update(current.items, [n \in {parts[1]} |-> blob_hash]))
    ELSE LET part == parts[1]
             sub == IF part \in DOMAIN current.items
                    THEN current.items[part] ELSE Dict(EmptyMap)
             inner == insert_nested(sub, Tail(parts), blob_hash)
         IN  IF inner = TypeError THEN TypeError
             ELSE Dict(Update(current.items, [n \in {part} |-> inner]))

\* the loop over index.items(): files and dirs after the items, or TypeError
RECURSIVE nested_dicts(_)
nested_dicts(items) ==
    IF items = <<>> THEN [kind |-> "ok", files |-> EmptyMap, dirs |-> Dict(EmptyMap)]
    ELSE LET before == nested_dicts(SubSeq(items, 1, Len(items) - 1))
             file_path == items[Len(items)][1]
             blob_hash == items[Len(items)][2]
         IN  IF before = TypeError THEN TypeError
             ELSE IF Len(file_path) = 1
             THEN [before EXCEPT !.files =
                      Update(before.files, [n \in {file_path[1]} |-> blob_hash])]
             ELSE LET dirs == insert_nested(before.dirs, file_path, blob_hash)
                  IN  IF dirs = TypeError THEN TypeError
                      ELSE [before EXCEPT !.dirs = dirs]

\* root_entries = {**files}, then every dirs[dir_name] over it
root_entries(nested) == Update(nested.files, nested.dirs.items)

\* create_tree_recursive(entries_dict) of the nested dict
RECURSIVE create_tree_of_dict(_)
create_tree_of_dict(entries_dict) ==
    Tree({ IF entries_dict[name].kind = "dict"
             THEN <<"40000", name, create_tree_of_dict(entries_dict[name].items)>>
             ELSE <<"100644", name, entries_dict[name]>>
           : name \in DOMAIN entries_dict })

\* create_tree_from_index of the index file's items: the id returned, or
\* TypeError
create_tree_from_items(items) ==
    IF items = <<>> THEN Tree({})
    ELSE LET nested == nested_dicts(items)
         IN  IF nested = TypeError THEN TypeError
             ELSE create_tree_of_dict(root_entries(nested))

\* the path -> blob id mapping of the items of an index file
Mapping(items) ==
    [p \in {items[i][1] : i \in DOMAIN items} |->
        items[CHOOSE i \in DOMAIN items : items[i][1] = p][2]]

\* an id no object of the store has
GhostId == Blob(<<"ghost">>)

\* the bytes of a file written by the user that parse as the payload of a
\* tree: one "100644 x\0<20 bytes>" frame, the 20 bytes being GhostId
ForgedTreeContent == <<"100644 x NUL ghost">>

\* the bytes of a file written by the user that parse as the payload of a
\* commit: the line "tree <id>", the id being that of the blob of the
\* file above
ForgedCommitContent == <<"tree forged">>

\* Tree.from_content of the payload of a loaded object, whatever its kind:
\* the frames "<mode> <name>\0<id>" found in it.  The text of the files of
\* Contents and the payload of a commit hold none.
TreeEntries(h) ==
    IF IsTree(h) THEN h.entries
    ELSE IF IsBlob(h) /\ h.content = ForgedTreeContent
    THEN {<<"100644", "x", GhostId>>}
    ELSE {}

\* Commit.from_content(...).tree_hash of the payload of a loaded object,
\* whatever its kind: None when the payload has no "tree " line
ParsedTree(h) ==
    IF IsCommit(h) THEN h.tree_hash
    ELSE IF IsBlob(h) /\ h.content = ForgedCommitContent
    THEN Blob(ForgedTreeContent)
    ELSE None

\* a walker that skips the subtrees
build_index_from_tree_files_only(tree_hash, prefix) ==
    IF ~CanLoad(tree_hash) THEN EmptyMap
    ELSE LET files == {e \in TreeEntries(tree_hash) : e[1] = "100644"}
         IN  [k \in {prefix \o <<e[2]>> : e \in files} |->
                (CHOOSE e \in files : prefix \o <<e[2]>> = k)[3]]

\* build_index_from_tree: the flat path -> blob id dict of a tree; a tree
\* that cannot be loaded contributes nothing (the exception is caught)
RECURSIVE build_index_from_tree(_, _)
build_index_from_tree(tree_hash, prefix) ==
    IF ~CanLoad(tree_hash) THEN EmptyMap
    ELSE LET parts == { IF e[1] = "100644"
                          THEN [k \in {prefix \o <<e[2]>>} |-> e[3]]
                          ELSE build_index_from_tree(e[3], prefix \o <<e[2]>>)
                        : e \in TreeEntries(tree_hash) }
             keys == UNION {DOMAIN f : f \in parts}
         IN  [k \in keys |-> (CHOOSE f \in parts : k \in DOMAIN f)[k]]

\* get_files_from_tree_recursive: the same walk, paths only
get_files_from_tree_recursive(tree_hash) == DOMAIN build_index_from_tree(tree_hash, <<>>)

\* get_commit_file_index: {} when the commit cannot be loaded
get_commit_file_index(commit_hash) ==
    IF CanLoad(commit_hash) /\ ParsedTree(commit_hash) # None
    THEN build_index_from_tree(ParsedTree(commit_hash), <<>>)
    ELSE EmptyMap

(***************************************************************************)
(* References.                                                             *)
(***************************************************************************)
\* the content of HEAD: "ref: refs/heads/<branch>" or a literal id
SymRef(branch) == [sym |-> TRUE, target |-> branch]
Detached(h) == [sym |-> FALSE, target |-> h]

\* an is_detached_head that never sees a detached HEAD
is_detached_head_never == FALSE

is_detached_head == ~HEAD.sym

get_current_branch == IF HEAD.sym THEN HEAD.target ELSE "HEAD"

get_branch_commit(branch) == IF branch \in DOMAIN heads THEN heads[branch] ELSE None

get_head_commit == IF HEAD.sym THEN get_branch_commit(HEAD.target) ELSE HEAD.target

\* a set_branch_commit that writes nothing
set_branch_commit_dropped(refs, branch, commit_hash) == refs

\* a set_branch_commit that writes the id into every branch file
set_branch_commit_all(refs, branch, commit_hash) ==
    [b \in (DOMAIN refs) \cup {branch} |-> commit_hash]

\* set_branch_commit: the refs after writing the branch file
set_branch_commit(refs, branch, commit_hash) ==
    [b \in (DOMAIN refs) \cup {branch} |-> IF b = branch THEN commit_hash ELSE refs[b]]

(***************************************************************************)
(* History graph.                                                          *)
(***************************************************************************)
\* the first parent read by the walks: None at a root commit, and the walk
\* breaks (None) when the object cannot be loaded
FirstParent(h) ==
    IF CanLoad(h) /\ IsCommit(h) /\ Len(h.parent_hashes) > 0
    THEN h.parent_hashes[1] ELSE None

RECURSIVE is_ancestor_walk(_, _, _)
is_ancestor_walk(ancestor_hash, current, visited) ==
    IF current = None \/ current \in visited THEN FALSE
    ELSE IF current = ancestor_hash THEN TRUE
    ELSE is_ancestor_walk(ancestor_hash, FirstParent(current), visited \cup {current})

\* an is_ancestor that never finds the ancestor
is_ancestor_never(ancestor_hash, descendant_hash) == FALSE

\* an is_ancestor that also follows the chain of the other argument
is_ancestor_symmetric(ancestor_hash, descendant_hash) ==
    \/ is_ancestor_walk(ancestor_hash, descendant_hash, {})
    \/ is_ancestor_walk(descendant_hash, ancestor_hash, {})

\* is_ancestor: ancestor_hash is on the first-parent chain of descendant_hash
is_ancestor(ancestor_hash, descendant_hash) ==
    is_ancestor_walk(ancestor_hash, descendant_hash, {})

\* get_all_ancestors: the stack walk over all parents, with its visited set
RECURSIVE get_all_ancestors_walk(_, _)
get_all_ancestors_walk(stack, ancestors) ==
    IF stack = <<>> THEN ancestors
    ELSE LET current == stack[Len(stack)]
             rest == SubSeq(stack, 1, Len(stack) - 1)
         IN  IF current \in ancestors THEN get_all_ancestors_walk(rest, ancestors)
             ELSE get_all_ancestors_walk(
                    IF CanLoad(current) /\ IsCommit(current)
                    THEN rest \o current.parent_hashes ELSE rest,
                    ancestors \cup {current})

\* a get_all_ancestors that returns every stored commit
get_all_ancestors_everything(commit_hash) == StoredCommits

get_all_ancestors(commit_hash) == get_all_ancestors_walk(<<commit_hash>>, {})

RECURSIVE find_common_ancestor_walk(_, _, _)
find_common_ancestor_walk(ancestors1, current, visited) ==
    IF current = None \/ current \in visited THEN None
    ELSE IF current \in ancestors1 THEN current
    ELSE find_common_ancestor_walk(ancestors1, FirstParent(current), visited \cup {current})

\* find_common_ancestor: the first commit of commit2's first-parent chain
\* that is an ancestor of commit1
find_common_ancestor(commit1, commit2) ==
    find_common_ancestor_walk(get_all_ancestors(commit1), commit2, {})

(***************************************************************************)
(* Working directory.                                                      *)
(***************************************************************************)
\* The files of the working directory are the files outside .git; a path
\* below .git/objects names the file of a stored object.  The model names
\* the file of the blob of a one-line file by that line.
IsObjectPath(path) == Len(path) = 3 /\ path[1] = ".git" /\ path[2] = "objects"

\* the object whose file is at an object path
ObjectAt(path) == Blob(<<path[3]>>)

\* the bytes of the file of a stored object (GitObject.serialize)
Serialized(obj) == <<"zlib", obj.kind>> \o obj.content

\* an index restricted to some of its paths
Restrict(idx, paths) == [p \in (DOMAIN idx) \cap paths |-> idx[p]]

\* the entries of an index at working paths
WorkPart(idx) == Restrict(idx, {p \in DOMAIN idx : ~IsObjectPath(p)})

\* the store after the unlink of the given paths: an object whose file is
\* unlinked is gone
unlink_objects(store, paths) ==
    store \ {ObjectAt(p) : p \in {q \in paths : IsObjectPath(q)}}

\* the store after the blobs of idx were written to their paths: an object
\* file written with the bytes of the object is the object again
write_objects(store, idx) ==
    store \cup {ObjectAt(p) : p \in {q \in DOMAIN idx :
                     IsObjectPath(q) /\ idx[q] = Blob(Serialized(ObjectAt(q)))}}

\* the content of the blobs of an index
BlobContents(idx) == [p \in DOMAIN idx |-> idx[p].content]

\* restore_tree: every blob of the tree is written to its path
restore_tree(files, tree_hash) ==
    Update(files, BlobContents(WorkPart(build_index_from_tree(tree_hash, <<>>))))

\* the objects restore_tree loads for a tree: the tree, its subtrees and
\* their blobs
RECURSIVE TreeObjects(_)
TreeObjects(tree_hash) ==
    {tree_hash} \cup UNION { IF e[1] = "40000" THEN TreeObjects(e[3]) ELSE {e[3]}
                             : e \in TreeEntries(tree_hash) }

\* a clearing that removes nothing
clear_files_kept(files, files_to_clear) == files

\* the unlink loop of checkout and restore_working_directory
clear_files(files, files_to_clear) == Without(files, files_to_clear)

\* the files of the tree of the commit HEAD resolves to (files_to_clear)
HeadFiles ==
    LET current_head == get_head_commit
    IN  IF current_head # None /\ CanLoad(current_head) /\ ParsedTree(current_head) # None
        THEN get_files_from_tree_recursive(ParsedTree(current_head))
        ELSE {}

(***************************************************************************)
(* Operations.                                                             *)
(***************************************************************************)
\* what the last operation reported: kept for commit, merge and stash
Result(op, res) ==
    IF op \in {"commit", "merge", "stash"} THEN [op |-> op, res |-> res]
    ELSE [op |-> "other", res |-> "ok"]

\* no pure function has been called
NoCall == [fn |-> "none"]

\* the state after Repository.init()
Init ==
    /\ objects = {}
    /\ HEAD = SymRef("master")
    /\ heads = EmptyMap
    /\ index = EmptyMap
    /\ MERGE_HEAD = NoFile
    /\ MERGE_MSG = NoFile
    /\ work = EmptyMap
    /\ now = 1
    /\ last = Result("init", "ok")
    /\ stash = <<>>
    /\ tags = EmptyMap
    /\ pure = NoCall

\* add_file(path), content being the bytes the user wrote to the file
\* before adding it (content = full_path.read_bytes())
add_file(path, content) ==
    LET blob == Blob(content)
    IN  /\ work' = Update(work, [p \in {path} |-> content])
        /\ objects' = store_object(objects, blob)
        /\ index' = Update(index, [p \in {path} |-> blob])
        /\ last' = Result("add", "ok")
        /\ UNCHANGED <<HEAD, heads, MERGE_HEAD, MERGE_MSG, now, stash, tags>>

\* the user writes a working file without adding it
write_file(path, content) ==
    /\ work' = Update(work, [p \in {path} |-> content])
    /\ last' = Result("write", "ok")
    /\ UNCHANGED <<objects, HEAD, heads, index, MERGE_HEAD, MERGE_MSG, now, stash, tags>>

\* a commit() parent list that forgets HEAD outside a merge
commit_parents_lost ==
    IF MERGE_HEAD # NoFile
    THEN IF get_head_commit # None THEN <<get_head_commit, MERGE_HEAD>> ELSE <<MERGE_HEAD>>
    ELSE <<>>

\* a commit() parent list that puts MERGE_HEAD first
commit_parents_swapped ==
    IF MERGE_HEAD # NoFile
    THEN IF get_head_commit # None THEN <<MERGE_HEAD, get_head_commit>> ELSE <<MERGE_HEAD>>
    ELSE IF get_head_commit # None THEN <<get_head_commit>> ELSE <<>>

\* the parent list commit() computes
commit_parents ==
    LET current_head == get_head_commit
    IN  IF MERGE_HEAD # NoFile
        THEN IF current_head # None THEN <<current_head, MERGE_HEAD>> ELSE <<MERGE_HEAD>>
        ELSE IF current_head # None THEN <<current_head>> ELSE <<>>

\* the message commit() uses: MERGE_MSG when merging and no message is given
commit_message(message) ==
    IF MERGE_HEAD # NoFile /\ MERGE_MSG # NoFile /\ message = <<>>
    THEN MERGE_MSG.text ELSE message

\* a guard that only refuses the empty index
nothing_to_commit_index_only(tree_hash, parent_hashes) == index = EmptyMap

\* a guard that compares the tree with the first parent of any parent list
nothing_to_commit_any_parent(tree_hash, parent_hashes) ==
    \/ index = EmptyMap
    \/ /\ Len(parent_hashes) >= 1
       /\ tree_hash = parent_hashes[1].tree_hash

\* commit() returns None with "nothing to commit": the index is empty, or the
\* only parent has the tree built from the index
nothing_to_commit(tree_hash, parent_hashes) ==
    \/ index = EmptyMap
    \/ /\ Len(parent_hashes) = 1
       /\ tree_hash = ParsedTree(parent_hashes[1])

\* commit(message, author), author being the default
commit(message) ==
    LET tree_hash == create_tree_from_index(index)
        with_trees == objects \cup SubTrees(tree_hash)
        parent_hashes == commit_parents
    IN  IF nothing_to_commit(tree_hash, parent_hashes)
        THEN /\ objects' = with_trees
             /\ last' = Result("commit", "nothing")
             /\ UNCHANGED <<HEAD, heads, index, MERGE_HEAD, MERGE_MSG, work, now, stash, tags>>
        ELSE \E timestamp \in now..MaxTime :
             LET new_commit == Commit(tree_hash, parent_hashes,
                                      commit_message(message), timestamp)
             IN  /\ now' = timestamp
                 /\ objects' = store_object(with_trees, new_commit)
                 /\ IF is_detached_head
                    THEN HEAD' = Detached(new_commit) /\ heads' = heads
                    ELSE /\ heads' = set_branch_commit(heads, get_current_branch, new_commit)
                         /\ HEAD' = HEAD
                 /\ MERGE_HEAD' = NoFile
                 /\ MERGE_MSG' = NoFile
                 /\ index' = EmptyMap
                 /\ last' = Result("commit", "created")
                 /\ UNCHANGED <<work, stash, tags>>

\* checkout_commit(commit_hash): detached HEAD at a stored commit
checkout_commit(commit_hash) ==
    /\ work' = restore_tree(clear_files(work, HeadFiles), ParsedTree(commit_hash))
    /\ HEAD' = Detached(commit_hash)
    /\ index' = EmptyMap
    /\ last' = Result("checkout", "detached")
    /\ UNCHANGED <<objects, heads, MERGE_HEAD, MERGE_MSG, now, stash, tags>>

\* restore_working_directory(branch, files_to_clear), the branch ref being
\* target_commit_hash: the working directory afterwards
restore_working_directory(target_commit_hash, files_to_clear) ==
    restore_tree(clear_files(work, files_to_clear), ParsedTree(target_commit_hash))

\* a checkout_branch that writes HEAD before it looks for the branch
checkout_branch_attaching(branch, create_branch) ==
    LET files_to_clear == HeadFiles
        previous_commit_hash == get_head_commit
        exists == branch \in DOMAIN heads
    IN  IF ~exists /\ (~create_branch \/ previous_commit_hash = None)
        THEN /\ HEAD' = SymRef(branch)
             /\ last' = Result("checkout", "not found")
             /\ UNCHANGED <<objects, heads, index, MERGE_HEAD, MERGE_MSG, work, now, stash, tags>>
        ELSE LET refs == IF exists THEN heads
                         ELSE set_branch_commit(heads, branch, previous_commit_hash)
             IN  /\ heads' = refs
                 /\ HEAD' = SymRef(branch)
                 /\ work' = restore_working_directory(refs[branch], files_to_clear)
                 /\ index' = EmptyMap
                 /\ last' = Result("checkout", "switched")
                 /\ UNCHANGED <<objects, MERGE_HEAD, MERGE_MSG, now, stash, tags>>

\* checkout_branch(branch, create_branch)
checkout_branch(branch, create_branch) ==
    LET files_to_clear == HeadFiles
        previous_commit_hash == get_head_commit
        exists == branch \in DOMAIN heads
    IN  IF ~exists /\ ~create_branch
        THEN /\ last' = Result("checkout", "not found")
             /\ UNCHANGED <<objects, HEAD, heads, index, MERGE_HEAD, MERGE_MSG, work, now, stash, tags>>
        ELSE IF ~exists /\ previous_commit_hash = None
        THEN /\ last' = Result("checkout", "no commits yet")
             /\ UNCHANGED <<objects, HEAD, heads, index, MERGE_HEAD, MERGE_MSG, work, now, stash, tags>>
        ELSE LET refs == IF exists THEN heads
                         ELSE set_branch_commit(heads, branch, previous_commit_hash)
             IN  /\ heads' = refs
                 /\ HEAD' = SymRef(branch)
                 /\ work' = restore_working_directory(refs[branch], files_to_clear)
                 /\ index' = EmptyMap
                 /\ last' = Result("checkout", "switched")
                 /\ UNCHANGED <<objects, MERGE_HEAD, MERGE_MSG, now, stash, tags>>

\* a checkout target: a string of hex digits (an id) or any other name
HexTarget(h) == [hex |-> TRUE, v |-> h]
NameTarget(name) == [hex |-> FALSE, v |-> name]

\* checkout(target, create_branch): a hex target that loads as an object is
\* checked out detached, any other target is a branch name
checkout(target, create_branch) ==
    IF target.hex /\ CanLoad(target.v)
    THEN checkout_commit(target.v)
    ELSE checkout_branch(target.v, create_branch)

\* branch(branch_name, delete) with a name: delete or create the branch
branch(branch_name, delete) ==
    IF delete
    THEN IF branch_name \in DOMAIN heads
         THEN /\ heads' = Without(heads, {branch_name})
              /\ last' = Result("branch", "deleted")
              /\ UNCHANGED <<objects, HEAD, index, MERGE_HEAD, MERGE_MSG, work, now, stash, tags>>
         ELSE /\ last' = Result("branch", "not found")
              /\ UNCHANGED <<objects, HEAD, heads, index, MERGE_HEAD, MERGE_MSG, work, now, stash, tags>>
    ELSE IF get_head_commit # None
         THEN /\ heads' = set_branch_commit(heads, branch_name, get_head_commit)
              /\ last' = Result("branch", "created")
              /\ UNCHANGED <<objects, HEAD, index, MERGE_HEAD, MERGE_MSG, work, now, stash, tags>>
         ELSE /\ last' = Result("branch", "no commits yet")
              /\ UNCHANGED <<objects, HEAD, heads, index, MERGE_HEAD, MERGE_MSG, work, now, stash, tags>>

\* a merge rule whose provisional entry is the branch side's when present
merge_path_branch_first(base_hash, current_hash, branch_hash) ==
    IF current_hash = branch_hash
    THEN [conflict |-> FALSE, hash |-> current_hash]
    ELSE IF current_hash = base_hash /\ branch_hash # base_hash
    THEN [conflict |-> FALSE, hash |-> branch_hash]
    ELSE IF branch_hash = base_hash /\ current_hash # base_hash
    THEN [conflict |-> FALSE, hash |-> current_hash]
    ELSE [conflict |-> TRUE,
          hash |-> IF branch_hash # None THEN branch_hash ELSE current_hash]

\* a merge rule that always keeps the current side
merge_path_ours(base_hash, current_hash, branch_hash) ==
    [conflict |-> FALSE, hash |-> current_hash]

\* a merge rule that keeps no provisional entry for a conflicted path
merge_path_dropping(base_hash, current_hash, branch_hash) ==
    IF current_hash = branch_hash
    THEN [conflict |-> FALSE, hash |-> current_hash]
    ELSE IF current_hash = base_hash /\ branch_hash # base_hash
    THEN [conflict |-> FALSE, hash |-> branch_hash]
    ELSE IF branch_hash = base_hash /\ current_hash # base_hash
    THEN [conflict |-> FALSE, hash |-> current_hash]
    ELSE [conflict |-> TRUE, hash |-> None]

\* the rule of three_way_merge for one path: the hash kept and whether the
\* path conflicts
merge_path(base_hash, current_hash, branch_hash) ==
    IF current_hash = branch_hash
    THEN [conflict |-> FALSE, hash |-> current_hash]
    ELSE IF current_hash = base_hash /\ branch_hash # base_hash
    THEN [conflict |-> FALSE, hash |-> branch_hash]
    ELSE IF branch_hash = base_hash /\ current_hash # base_hash
    THEN [conflict |-> FALSE, hash |-> current_hash]
    ELSE [conflict |-> TRUE,
          hash |-> IF current_hash # None THEN current_hash ELSE branch_hash]

all_files(base, current, other) == (DOMAIN base) \cup (DOMAIN current) \cup (DOMAIN other)

\* three_way_merge(base, current, branch): the merged index
three_way_merged(base, current, other) ==
    LET outcome(f) == merge_path(Get(base, f), Get(current, f), Get(other, f))
    IN  [f \in {g \in all_files(base, current, other) : outcome(g).hash # None}
            |-> outcome(f).hash]

\* three_way_merge(base, current, branch): the conflict set
three_way_conflicts(base, current, other) ==
    {f \in all_files(base, current, other) :
        merge_path(Get(base, f), Get(current, f), Get(other, f)).conflict}

\* the file restore_merged_files writes for a conflicted path
conflict_content(current_content, branch_content) ==
    <<"<<<<<<< HEAD">> \o current_content \o <<"=======">> \o branch_content
        \o <<">>>>>>> MERGE_HEAD">>

\* restore_merged_files(index, conflicts): the working directory afterwards
restore_merged_files(idx, conflicts) ==
    Update(work,
           [f \in DOMAIN idx |->
               IF f \in conflicts
               THEN conflict_content(IF f \in DOMAIN work THEN work[f] ELSE <<>>,
                                     idx[f].content)
               ELSE idx[f].content])

\* merge parents in the wrong order
merge_parents_swapped(current_commit_hash, branch_commit_hash) ==
    <<branch_commit_hash, current_commit_hash>>

\* the parents of the commit a clean three-way merge makes
merge_parents(current_commit_hash, branch_commit_hash) ==
    <<current_commit_hash, branch_commit_hash>>

\* the message of a merge: "Merge branch '<branch>' into <current_branch>"
merge_message(branch_name, current_branch) ==
    <<"Merge branch", branch_name, "into", current_branch>>

\* a write_text that writes no file
TextFile_unwritten(text) == NoFile

\* a file holding a text
TextFile(text) == [kind |-> "file", text |-> text]

\* merge(branch, no_ff)
merge(branch_name, no_ff) ==
    LET current_branch == get_current_branch
        branch_commit_hash == get_branch_commit(branch_name)
        current_commit_hash == get_head_commit
        rejected(res) ==
            /\ last' = Result("merge", res)
            /\ UNCHANGED <<objects, HEAD, heads, index, MERGE_HEAD, MERGE_MSG, work, now, stash, tags>>
    IN  IF is_detached_head THEN rejected("detached")
        ELSE IF branch_name = current_branch THEN rejected("itself")
        ELSE IF branch_commit_hash = None THEN rejected("not found")
        ELSE IF current_commit_hash = None THEN rejected("no commits")
        ELSE IF current_commit_hash = branch_commit_hash THEN rejected("up to date")
        ELSE IF ~no_ff /\ is_ancestor(current_commit_hash, branch_commit_hash)
        THEN /\ heads' = set_branch_commit(heads, current_branch, branch_commit_hash)
             /\ work' = restore_working_directory(branch_commit_hash, {})
             /\ index' = EmptyMap
             /\ last' = Result("merge", "fast-forward")
             /\ UNCHANGED <<objects, HEAD, MERGE_HEAD, MERGE_MSG, now, stash, tags>>
        ELSE LET common_ancestor ==
                     find_common_ancestor(current_commit_hash, branch_commit_hash)
                 base_index == get_commit_file_index(common_ancestor)
                 current_index == get_commit_file_index(current_commit_hash)
                 branch_index == get_commit_file_index(branch_commit_hash)
                 merged_index == three_way_merged(base_index, current_index, branch_index)
                 conflicts == three_way_conflicts(base_index, current_index, branch_index)
                 files == restore_merged_files(merged_index, conflicts)
             IN  IF common_ancestor = None THEN rejected("no common ancestor")
                 ELSE IF conflicts # {}
                 THEN /\ \A f \in DOMAIN files : Len(files[f]) <= MaxFileLen
                      /\ MERGE_HEAD' = branch_commit_hash
                      /\ MERGE_MSG' = TextFile(merge_message(branch_name, current_branch))
                      /\ index' = merged_index
                      /\ work' = files
                      /\ last' = Result("merge", "conflicts")
                      /\ UNCHANGED <<objects, HEAD, heads, now, stash, tags>>
                 ELSE \E timestamp \in now..MaxTime :
                      LET tree_hash == create_tree_from_index(merged_index)
                          merge_commit ==
                              Commit(tree_hash,
                                     merge_parents(current_commit_hash, branch_commit_hash),
                                     merge_message(branch_name, current_branch), timestamp)
                      IN  /\ now' = timestamp
                          /\ work' = files
                          /\ objects' = store_object(objects \cup SubTrees(tree_hash),
                                                     merge_commit)
                          /\ heads' = set_branch_commit(heads, current_branch, merge_commit)
                          /\ index' = EmptyMap
                          /\ last' = Result("merge", "merged")
                          /\ UNCHANGED <<HEAD, MERGE_HEAD, MERGE_MSG, stash, tags>>

\* a reset that always writes the id to the HEAD file
reset_head_detaching(commit_hash) ==
    HEAD' = Detached(commit_hash) /\ heads' = heads

\* the HEAD and refs after reset moved the HEAD target to commit_hash
reset_head(commit_hash) ==
    IF is_detached_head
    THEN HEAD' = Detached(commit_hash) /\ heads' = heads
    ELSE HEAD' = HEAD /\ heads' = set_branch_commit(heads, get_current_branch, commit_hash)

\* a reset that resets the index in every mode and never the working
\* directory
reset_always_mixed(commit_hash, mode) ==
    IF ~CanLoad(commit_hash)
    THEN /\ last' = Result("reset", "not found")
         /\ UNCHANGED <<objects, HEAD, heads, index, MERGE_HEAD, MERGE_MSG, work, now, stash, tags>>
    ELSE /\ reset_head(commit_hash)
         /\ last' = Result("reset", mode)
         /\ index' = IF ParsedTree(commit_hash) # None
                     THEN build_index_from_tree(ParsedTree(commit_hash), <<>>)
                     ELSE EmptyMap
         /\ UNCHANGED <<objects, MERGE_HEAD, MERGE_MSG, work, now, stash, tags>>

\* a reset that only moves the HEAD target in every mode
reset_always_soft(commit_hash, mode) ==
    IF ~CanLoad(commit_hash)
    THEN /\ last' = Result("reset", "not found")
         /\ UNCHANGED <<objects, HEAD, heads, index, MERGE_HEAD, MERGE_MSG, work, now, stash, tags>>
    ELSE /\ reset_head(commit_hash)
         /\ last' = Result("reset", mode)
         /\ UNCHANGED <<objects, index, MERGE_HEAD, MERGE_MSG, work, now, stash, tags>>

\* reset(commit_hash, mode)
reset(commit_hash, mode) ==
    IF ~CanLoad(commit_hash)
    THEN /\ last' = Result("reset", "not found")
         /\ UNCHANGED <<objects, HEAD, heads, index, MERGE_HEAD, MERGE_MSG, work, now, stash, tags>>
    ELSE LET tree_hash == ParsedTree(commit_hash)
             new_index == IF tree_hash # None
                          THEN build_index_from_tree(tree_hash, <<>>)
                          ELSE EmptyMap
         IN  /\ reset_head(commit_hash)
             /\ last' = Result("reset", mode)
             /\ UNCHANGED <<MERGE_HEAD, MERGE_MSG, now, stash, tags>>
             /\ CASE mode = "soft" -> UNCHANGED <<objects, index, work>>
                  [] mode = "mixed" ->
                        /\ index' = new_index
                        /\ UNCHANGED <<objects, work>>
                  [] mode = "hard" ->
                        IF TreeObjects(tree_hash) \subseteq objects \/ tree_hash = None
                        THEN /\ work' = BlobContents(WorkPart(new_index))
                             /\ objects' = write_objects(objects, new_index)
                             /\ index' = new_index
                        ELSE \* load_object raises in restore_tree: the files
                             \* are gone, the tree is restored in part and
                             \* the index is not saved
                             \E done \in SUBSET {p \in DOMAIN new_index : CanLoad(new_index[p])} :
                                /\ work' = BlobContents(WorkPart(Restrict(new_index, done)))
                                /\ objects' = write_objects(objects, Restrict(new_index, done))
                                /\ index' = index

\* what cherry_pick printed: the outcome and the conflicts it listed
CherryPickResult(res, conflicts) ==
    [op |-> "cherry-pick", res |-> res, conflicts |-> conflicts]

\* Commit.from_content(...).parent_hashes: the parent lines of the payload,
\* none in the payload of a blob or a tree written by the repository
ParsedParents(h) == IF IsCommit(h) THEN h.parent_hashes ELSE <<>>

\* the changes of the commit: the paths whose blob differs between the first
\* parent and the commit, with the commit's blob (None when deleted)
cherry_pick_changes(parent_index, commit_index) ==
    [file \in {f \in (DOMAIN parent_index) \cup (DOMAIN commit_index) :
                  Get(parent_index, f) # Get(commit_index, f)}
        |-> Get(commit_index, file)]

\* a cherry_pick that finds no conflict
cherry_pick_conflicts_none(changes, current_index, parent_index) == {}

\* the changed paths cherry_pick lists as conflicts: those the HEAD commit
\* has with another blob than the parent
cherry_pick_conflicts(changes, current_index, parent_index) ==
    {file \in DOMAIN changes :
        file \in DOMAIN current_index /\ current_index[file] # Get(parent_index, file)}

\* the index after the changes were applied: the new blob, or the path
\* deleted
cherry_pick_index(idx, changes) ==
    [file \in ((DOMAIN idx) \cup (DOMAIN changes))
                \ {f \in DOMAIN changes : changes[f] = None}
        |-> IF file \in DOMAIN changes THEN changes[file] ELSE idx[file]]

\* cherry_pick(commit_hash)
cherry_pick(commit_hash) ==
    LET rejected(res, conflicts) ==
            /\ last' = CherryPickResult(res, conflicts)
            /\ UNCHANGED <<objects, HEAD, heads, index, MERGE_HEAD, MERGE_MSG, work, now, stash, tags>>
    IN  IF ~CanLoad(commit_hash) THEN rejected("not found", {})
        ELSE IF ParsedParents(commit_hash) = <<>> THEN rejected("initial commit", {})
        ELSE LET parent_hash == ParsedParents(commit_hash)[1]
                 parent_index == get_commit_file_index(parent_hash)
                 commit_index == get_commit_file_index(commit_hash)
                 current_head == get_head_commit
                 current_index == IF current_head # None
                                  THEN get_commit_file_index(current_head)
                                  ELSE EmptyMap
                 changes == cherry_pick_changes(parent_index, commit_index)
                 conflicts == cherry_pick_conflicts(changes, current_index, parent_index)
                 new_index == cherry_pick_index(index, changes)
             IN  IF conflicts # {} THEN rejected("conflicts", conflicts)
                 ELSE /\ index' = new_index
                      /\ last' = CherryPickResult("picked", {})
                      /\ UNCHANGED <<HEAD, heads, MERGE_HEAD, MERGE_MSG, now, stash, tags>>
                      /\ IF \A f \in DOMAIN new_index : CanLoad(new_index[f])
                         THEN /\ work' = Update(work, BlobContents(WorkPart(new_index)))
                              /\ objects' = write_objects(objects, new_index)
                         ELSE \* load_object raises: the files are written in part
                              \E done \in SUBSET {f \in DOMAIN new_index :
                                                     CanLoad(new_index[f])} :
                                 /\ work' = Update(work,
                                       BlobContents(WorkPart(Restrict(new_index, done))))
                                 /\ objects' = write_objects(objects,
                                                             Restrict(new_index, done))

\* the message of a stash entry: "WIP on <branch>" when none is given
stash_message(message) ==
    IF message = <<>> THEN <<"WIP on", get_current_branch>> ELSE message

\* stash(message): save the index as entry 0, unlink the staged paths, save
\* an empty index and restore the tree of the HEAD commit
stash_save(message) ==
    IF index = EmptyMap
    THEN /\ last' = Result("stash", "no changes")
         /\ UNCHANGED <<objects, HEAD, heads, index, MERGE_HEAD, MERGE_MSG, work, now, stash, tags>>
    ELSE \E timestamp \in now..MaxTime :
         LET stash_entry == [index |-> index,
                             message |-> stash_message(message),
                             timestamp |-> timestamp,
                             branch |-> get_current_branch,
                             commit |-> get_head_commit]
             store == unlink_objects(objects, DOMAIN index)
             cleared == Without(work, DOMAIN index)
             head_commit == get_head_commit
             tree_hash == IF head_commit # None THEN ParsedTree(head_commit) ELSE None
             head_index == IF tree_hash # None
                           THEN build_index_from_tree(tree_hash, <<>>) ELSE EmptyMap
         IN  /\ stash' = <<stash_entry>> \o stash
             /\ index' = EmptyMap
             /\ now' = timestamp
             /\ last' = Result("stash", "saved")
             /\ UNCHANGED <<HEAD, heads, MERGE_HEAD, MERGE_MSG, tags>>
             /\ IF head_commit = None
                THEN work' = cleared /\ objects' = store
                ELSE IF head_commit \in store /\ tree_hash = None
                THEN work' = cleared /\ objects' = store
                ELSE IF head_commit \in store /\ TreeObjects(tree_hash) \subseteq store
                THEN /\ work' = Update(cleared, BlobContents(WorkPart(head_index)))
                     /\ objects' = write_objects(store, head_index)
                ELSE \* load_object raises: the tree is restored in part
                     \E done \in SUBSET {p \in DOMAIN head_index :
                                           head_commit \in store /\ head_index[p] \in store} :
                        /\ work' = Update(cleared,
                                          BlobContents(WorkPart(Restrict(head_index, done))))
                        /\ objects' = write_objects(store, Restrict(head_index, done))

\* a position that is always the first
StashPos_first(n) == 1

\* the position (from 1) of stashes[index], Python's negative indices
\* counting from the end
StashPos(n) == IF n >= 0 THEN n + 1 ELSE Len(stash) + n + 1

\* a pop that removes no entry
StashWithout_nothing(pos) == stash

\* stashes.pop(index)
StashWithout(pos) == SubSeq(stash, 1, pos - 1) \o SubSeq(stash, pos + 1, Len(stash))

\* pop, apply and drop find no entry: no stash file, an empty list, or
\* index >= len(stashes); an index below -len(stashes) raises IndexError
stash_not_found(n) == stash = <<>> \/ n >= Len(stash) \/ StashPos(n) < 1

\* the blobs of a stash entry that load_object finds: the others are
\* skipped with a warning
Loadable(idx) == Restrict(idx, {p \in DOMAIN idx : CanLoad(idx[p])})

\* stash_apply(index): write the blobs of the entry, update the index
stash_apply(n) ==
    IF stash_not_found(n)
    THEN /\ last' = Result("stash", "not found")
         /\ UNCHANGED <<objects, HEAD, heads, index, MERGE_HEAD, MERGE_MSG, work, now, stash, tags>>
    ELSE LET stash_index == stash[StashPos(n)].index
         IN  /\ work' = Update(work, BlobContents(WorkPart(Loadable(stash_index))))
             /\ objects' = write_objects(objects, Loadable(stash_index))
             /\ index' = Update(index, stash_index)
             /\ last' = Result("stash", "applied")
             /\ UNCHANGED <<HEAD, heads, MERGE_HEAD, MERGE_MSG, now, stash, tags>>

\* stash_pop(index): stash_apply, then remove the entry
stash_pop(n) ==
    IF stash_not_found(n)
    THEN /\ last' = Result("stash", "not found")
         /\ UNCHANGED <<objects, HEAD, heads, index, MERGE_HEAD, MERGE_MSG, work, now, stash, tags>>
    ELSE LET stash_index == stash[StashPos(n)].index
         IN  /\ work' = Update(work, BlobContents(WorkPart(Loadable(stash_index))))
             /\ objects' = write_objects(objects, Loadable(stash_index))
             /\ index' = Update(index, stash_index)
             /\ stash' = StashWithout(StashPos(n))
             /\ last' = Result("stash", "popped")
             /\ UNCHANGED <<HEAD, heads, MERGE_HEAD, MERGE_MSG, now, tags>>

\* stash_drop(index): remove the entry
stash_drop(n) ==
    IF stash_not_found(n)
    THEN /\ last' = Result("stash", "not found")
         /\ UNCHANGED <<objects, HEAD, heads, index, MERGE_HEAD, MERGE_MSG, work, now, stash, tags>>
    ELSE /\ stash' = StashWithout(StashPos(n))
         /\ last' = Result("stash", "dropped")
         /\ UNCHANGED <<objects, HEAD, heads, index, MERGE_HEAD, MERGE_MSG, work, now, tags>>

\* add_file(path) of the file of a stored object: FileNotFoundError when
\* the object has no file, else the file's bytes are stored as a blob and
\* the path is staged
add_object_file(path) ==
    /\ IsObjectPath(path)
    /\ IF ObjectAt(path) \notin objects
       THEN /\ last' = Result("add", "not found")
            /\ UNCHANGED <<objects, HEAD, heads, index, MERGE_HEAD, MERGE_MSG, work, now, stash, tags>>
       ELSE LET blob == Blob(Serialized(ObjectAt(path)))
            IN  /\ objects' = store_object(objects, blob)
                /\ index' = Update(index, [p \in {path} |-> blob])
                /\ last' = Result("add", "ok")
                /\ UNCHANGED <<HEAD, heads, MERGE_HEAD, MERGE_MSG, work, now, stash, tags>>

\* an id no object of the store has
MissingCommit == Commit(Tree({}), <<>>, <<"missing">>, 0)

(***************************************************************************)
(* The specification: every operation, from the state after init, with the *)
(* user's inputs drawn from small sets.                                    *)
(***************************************************************************)
\* the first parent of the HEAD commit, if any (HEAD~1)
HeadParent ==
    IF get_head_commit # None /\ FirstParent(get_head_commit) # None
    THEN {FirstParent(get_head_commit)} ELSE {}

\* the commit ids checkout is called with: the branch tips and HEAD~1
CheckoutArgs == {heads[b] : b \in DOMAIN heads} \cup HeadParent

\* the commit ids reset is called with: the HEAD commit and HEAD~1
ResetArgs == (IF get_head_commit # None THEN {get_head_commit} ELSE {}) \cup HeadParent

\* the bound on the commits of the store
WithinBounds ==
    /\ Cardinality({o \in StoredCommits : Len(o.parent_hashes) = 2}) <= MaxMerges
    /\ Cardinality({o \in StoredCommits : Len(o.parent_hashes) < 2}) <= MaxCommits

\* the bound on the paths staged at a time
MayStage(path) == Cardinality((DOMAIN index) \cup {path}) <= MaxStaged

Add == \E path \in Paths : \E content \in Contents(path) :
          MayStage(path) /\ add_file(path, content) /\ UNCHANGED pure

DoCommit == \E message \in Messages :
               commit(message) /\ WithinBounds' /\ UNCHANGED pure

CheckoutName == \E name \in BranchNames, create_branch \in BOOLEAN :
                   checkout(NameTarget(name), create_branch) /\ UNCHANGED pure

CheckoutId == \E commit_hash \in CheckoutArgs :
                 checkout(HexTarget(commit_hash), FALSE) /\ UNCHANGED pure

Branch == \E branch_name \in BranchNames, delete \in BOOLEAN :
             branch(branch_name, delete) /\ UNCHANGED pure

Merge == \E branch_name \in BranchNames, no_ff \in BOOLEAN :
            merge(branch_name, no_ff) /\ WithinBounds' /\ UNCHANGED pure

Reset == \E commit_hash \in ResetArgs, mode \in {"soft", "mixed", "hard"} :
            reset(commit_hash, mode) /\ UNCHANGED pure

ResetMissing == reset(MissingCommit, "mixed") /\ UNCHANGED pure

Next ==
    \/ Add
    \/ DoCommit
    \/ CheckoutName
    \/ CheckoutId
    \/ Branch
    \/ Merge
    \/ Reset
    \/ ResetMissing

Spec == Init /\ [][Next]_vars

(***************************************************************************)
(* A second specification, for the merges of diverged branches: the user   *)
(* only adds, commits, switches branches and merges, and commits only on   *)
(* an empty history, on top of the root commit, or to conclude a merge.    *)
(***************************************************************************)
\* the commits with fewer than two parents
PlainCommits == {o \in StoredCommits : Len(o.parent_hashes) < 2}

\* the bound on the commits of the store under SpecDiverged: one root, its
\* children, and the merges
DivergedBounds ==
    /\ Cardinality({o \in StoredCommits : Len(o.parent_hashes) = 2}) <= MaxMerges
    /\ Cardinality(PlainCommits) <= MaxCommits + 1
    /\ Cardinality({o \in PlainCommits : Len(o.parent_hashes) = 0}) <= 1
    /\ \A o \in PlainCommits :
          Len(o.parent_hashes) = 1 => Len(o.parent_hashes[1].parent_hashes) = 0

CommitDiverged == \E message \in Messages :
                     commit(message) /\ DivergedBounds' /\ UNCHANGED pure

MergeDiverged == \E branch_name \in BranchNames, no_ff \in BOOLEAN :
                    merge(branch_name, no_ff) /\ DivergedBounds' /\ UNCHANGED pure

NextDiverged ==
    \/ Add
    \/ CommitDiverged
    \/ CheckoutName
    \/ MergeDiverged

SpecDiverged == Init /\ [][NextDiverged]_vars

(***************************************************************************)
(* A third specification, for the stash: the user adds, commits and uses   *)
(* the four stash operations.                                              *)
(***************************************************************************)
\* the most entries of the stash
MaxStash == 2

\* the positions the stash operations are called with
StashArgs == {-1, 0, 1}

\* the messages stash is called with: none
StashMessages == {<<>>}

StashSave == \E message \in StashMessages :
                /\ Len(stash) < MaxStash
                /\ stash_save(message)
                /\ UNCHANGED pure

StashPop == \E n \in StashArgs : stash_pop(n) /\ UNCHANGED pure

StashApply == \E n \in StashArgs : stash_apply(n) /\ UNCHANGED pure

StashDrop == \E n \in StashArgs : stash_drop(n) /\ UNCHANGED pure

NextStash ==
    \/ Add
    \/ DoCommit
    \/ StashSave
    \/ StashPop
    \/ StashApply
    \/ StashDrop

SpecStash == Init /\ [][NextStash]_vars

(***************************************************************************)
(* A fourth specification, for a user who also adds files whose bytes      *)
(* parse as objects and files of the object store, and who resets to any   *)
(* stored object.                                                          *)
(***************************************************************************)
\* the files whose bytes parse as a tree and as a commit
ForgedFiles == {<<<<"f1">>, ForgedTreeContent>>, <<<<"f2">>, ForgedCommitContent>>}

\* the object files the user adds: the file of the blob of the file "v1"
ObjectFiles == {<<".git", "objects", "v1">>}

\* the ids reset is called with: the HEAD commit, HEAD~1, and the blob of
\* the file that parses as a commit
ForgedResetArgs == ResetArgs \cup {Blob(ForgedCommitContent)}

AddForged == \E file \in ForgedFiles :
                MayStage(file[1]) /\ add_file(file[1], file[2]) /\ UNCHANGED pure

AddObjectFile == \E path \in ObjectFiles :
                    MayStage(path) /\ add_object_file(path) /\ UNCHANGED pure

ResetForged == \E commit_hash \in ForgedResetArgs, mode \in {"soft", "mixed", "hard"} :
                  reset(commit_hash, mode) /\ UNCHANGED pure

\* the bound on the commits of this specification: one fewer than MaxCommits
ForgedBounds == Cardinality(StoredCommits) < MaxCommits

CommitForged == \E message \in Messages :
                   commit(message) /\ ForgedBounds' /\ UNCHANGED pure

\* the user stashes while the stash is empty
StashForged == \E message \in StashMessages :
                  stash = <<>> /\ stash_save(message) /\ UNCHANGED pure

NextForged ==
    \/ Add
    \/ AddForged
    \/ AddObjectFile
    \/ CommitForged
    \/ ResetForged
    \/ StashForged

SpecForged == Init /\ [][NextForged]_vars

(***************************************************************************)
(* A fifth specification, for the tree builder and the tree walker as      *)
(* functions: the index file is drawn in two orders with one mapping, the  *)
(* builder is applied to both, a tree it stored is walked and the walk is  *)
(* built again.                                                            *)
(***************************************************************************)
\* the most paths of the index file
MaxItems == 3

\* the paths of the index file: a file a, and d as a file, as a directory
\* with a file b, and with b as a directory with a file c
TreePaths == {<<"a">>, <<"d">>, <<"d", "b">>, <<"d", "b", "c">>}

\* the blob ids of the index file
TreeBlobs == {Blob(<<"v1">>), Blob(<<"v2">>)}

\* the index files: every path at most once
IndexItems ==
    {items \in UNION {[1..n -> TreePaths \X TreeBlobs] : n \in 0..MaxItems} :
        \A i \in DOMAIN items, j \in DOMAIN items : items[i][1] = items[j][1] => i = j}

InitTree ==
    /\ objects = {}
    /\ HEAD = SymRef("master")
    /\ heads = EmptyMap
    /\ index = EmptyMap
    /\ MERGE_HEAD = NoFile
    /\ MERGE_MSG = NoFile
    /\ work = EmptyMap
    /\ now = 1
    /\ last = Result("init", "ok")
    /\ stash = <<>>
    /\ tags = EmptyMap
    /\ \E items \in IndexItems, other \in IndexItems :
          /\ Mapping(items) = Mapping(other)
          /\ pure = [fn |-> "load_index", items |-> items, other |-> other]

\* the trees create_tree_recursive stores for a result
StoredTrees(tree) == IF tree = TypeError THEN {} ELSE SubTrees(tree)

\* create_tree_from_index on each of the two index files
BuildTrees ==
    /\ pure.fn = "load_index"
    /\ LET tree == create_tree_from_items(pure.items)
           other_tree == create_tree_from_items(pure.other)
       IN  /\ pure' = [fn |-> "create_tree_from_index", items |-> pure.items,
                       tree |-> tree, other_tree |-> other_tree]
           /\ objects' = objects \cup StoredTrees(tree) \cup StoredTrees(other_tree)
    /\ UNCHANGED <<HEAD, heads, index, MERGE_HEAD, MERGE_MSG, work, now, last, stash, tags>>

\* build_index_from_tree on a tree the builder stored for the first file
WalkTree ==
    /\ pure.fn = "create_tree_from_index"
    /\ \E tree \in StoredTrees(pure.tree) :
          pure' = [fn |-> "build_index_from_tree", tree |-> tree,
                   index |-> build_index_from_tree(tree, <<>>)]
    /\ UNCHANGED <<objects, HEAD, heads, index, MERGE_HEAD, MERGE_MSG, work, now, last, stash, tags>>

\* create_tree_from_index on the walk, saved as an index file in any order
RebuildTree ==
    /\ pure.fn = "build_index_from_tree"
    /\ \E items \in IndexItems :
          /\ Mapping(items) = pure.index
          /\ pure' = [fn |-> "round_trip", tree |-> pure.tree, items |-> items,
                      rebuilt |-> create_tree_from_items(items)]
    /\ UNCHANGED <<objects, HEAD, heads, index, MERGE_HEAD, MERGE_MSG, work, now, last, stash, tags>>

NextTree ==
    \/ BuildTrees
    \/ WalkTree
    \/ RebuildTree

SpecTree == InitTree /\ [][NextTree]_vars

(***************************************************************************)
(* A sixth specification, for three_way_merge as a function: the three     *)
(* indices are drawn, then the function is applied.                        *)
(***************************************************************************)
\* the blob ids of the three indices
MergeBlobs == {Blob(<<"v1">>), Blob(<<"v2">>), Blob(<<"v3">>)}

\* the indices three_way_merge is called with
MergeIndices == UNION {[paths -> MergeBlobs] : paths \in SUBSET Paths}

InitThreeWay ==
    /\ objects = {}
    /\ HEAD = SymRef("master")
    /\ heads = EmptyMap
    /\ index = EmptyMap
    /\ MERGE_HEAD = NoFile
    /\ MERGE_MSG = NoFile
    /\ work = EmptyMap
    /\ now = 1
    /\ last = Result("init", "ok")
    /\ stash = <<>>
    /\ tags = EmptyMap
    /\ \E base \in MergeIndices, current \in MergeIndices, other \in MergeIndices :
          pure = [fn |-> "arguments", base |-> base, current |-> current,
                  branch |-> other]

\* three_way_merge(base, current, branch)
ThreeWayMerge ==
    /\ pure.fn = "arguments"
    /\ pure' = [fn |-> "three_way_merge", base |-> pure.base,
                current |-> pure.current, branch |-> pure.branch,
                merged |-> three_way_merged(pure.base, pure.current, pure.branch),
                conflicts |-> three_way_conflicts(pure.base, pure.current, pure.branch)]
    /\ UNCHANGED <<objects, HEAD, heads, index, MERGE_HEAD, MERGE_MSG, work, now, last, stash, tags>>

NextThreeWay == ThreeWayMerge

SpecThreeWay == InitThreeWay /\ [][NextThreeWay]_vars

(***************************************************************************)
(* A seventh specification, for checkout by id: the user adds, commits     *)
(* (within ForgedBounds), checks out branches and checks out the id of any *)
(* stored object.                                                          *)
(***************************************************************************)
CheckoutObject == \E obj_hash \in objects :
                     checkout(HexTarget(obj_hash), FALSE) /\ UNCHANGED pure

NextObjects ==
    \/ Add
    \/ CommitForged
    \/ CheckoutName
    \/ CheckoutObject

SpecObjects == Init /\ [][NextObjects]_vars

(***************************************************************************)
(* An eighth specification, for working files that are not tracked: the    *)
(* user also writes files without adding them, checks out and resets hard. *)
(***************************************************************************)
\* the files the user writes without adding them: a path some commits have
\* and a path no commit has
WrittenFiles == {<<<<"a">>, <<"v2">>>>, <<<<"u">>, <<"v1">>>>}

WriteFile == \E file \in WrittenFiles : write_file(file[1], file[2]) /\ UNCHANGED pure

ResetHard == \E commit_hash \in ResetArgs : reset(commit_hash, "hard") /\ UNCHANGED pure

NextUntracked ==
    \/ WriteFile
    \/ Add
    \/ DoCommit
    \/ CheckoutName
    \/ CheckoutId
    \/ ResetHard

SpecUntracked == Init /\ [][NextUntracked]_vars

(***************************************************************************)
(* A ninth specification, for reset: the user adds, commits, checks out    *)
(* branches and commits (so that HEAD may be detached), stashes once, and  *)
(* resets in the three modes.                                              *)
(***************************************************************************)
NextReset ==
    \/ Add
    \/ DoCommit
    \/ CheckoutName
    \/ CheckoutId
    \/ StashForged
    \/ Reset

SpecReset == Init /\ [][NextReset]_vars

(***************************************************************************)
(* A tenth specification, for cherry-pick: the user adds, commits, checks  *)
(* out branches and commits, and cherry-picks any stored commit or an id   *)
(* the store has not.                                                      *)
(***************************************************************************)
CherryPick == \E commit_hash \in StoredCommits \cup {MissingCommit} :
                 cherry_pick(commit_hash) /\ UNCHANGED pure

NextCherry ==
    \/ Add
    \/ DoCommit
    \/ CheckoutName
    \/ CheckoutId
    \/ CherryPick

SpecCherry == Init /\ [][NextCherry]_vars

(***************************************************************************)
(* An eleventh specification, for the history walks on a handcrafted       *)
(* store.  The id of an object is taken to be the object in the rest of    *)
(* the module, so no commit there is its own ancestor; here the commit     *)
(* files are written by hand: an id is a name and the store maps each      *)
(* stored id to the parent ids of its payload, which may name the commit   *)
(* itself, a descendant, or an id with no object.  Every iteration of a    *)
(* loop of is_ancestor, find_common_ancestor and get_all_ancestors is one  *)
(* step; the walk state is kept in the variable pure.                      *)
(***************************************************************************)
\* the most parent lines of a handcrafted commit
MaxParents == 2

\* the ids of the handcrafted commits, and an id with no object
GraphIds == {"c1", "c2"}
MissingId == "c0"

\* Python's None as an id
NoId == "None"

\* the stores: the parent ids of every commit
Graphs ==
    [GraphIds -> UNION {[1..n -> GraphIds \cup {MissingId}] : n \in 0..MaxParents}]

\* the state of a call: its arguments, the loop it is in and its locals
WalkCall(fn, graph, commit1, commit2) ==
    [fn |-> fn, graph |-> graph, commit1 |-> commit1, commit2 |-> commit2,
     pc |-> IF fn = "is_ancestor" THEN "first_parent_loop" ELSE "stack_loop",
     stack |-> <<commit1>>, ancestors |-> {},
     current |-> commit2, visited |-> {},
     log |-> <<>>, result |-> NoId]

InitWalk ==
    /\ objects = {}
    /\ HEAD = SymRef("master")
    /\ heads = EmptyMap
    /\ index = EmptyMap
    /\ MERGE_HEAD = NoFile
    /\ MERGE_MSG = NoFile
    /\ work = EmptyMap
    /\ now = 1
    /\ last = Result("init", "ok")
    /\ stash = <<>>
    /\ tags = EmptyMap
    /\ \E fn \in {"is_ancestor", "find_common_ancestor", "get_all_ancestors"},
          graph \in Graphs,
          commit1 \in GraphIds \cup {MissingId},
          commit2 \in GraphIds \cup {MissingId} :
          /\ fn = "get_all_ancestors" => commit2 = commit1
          /\ pure = WalkCall(fn, graph, commit1, commit2)

\* a loop test that never finds the commit in the visited set
Seen_never(commit_hash, visited) == FALSE

\* `current in ancestors` / `current not in visited`
Seen(commit_hash, visited) == commit_hash \in visited

\* load_object and Commit.from_content of a handcrafted commit: its parent
\* ids, or the exception of a missing object
WalkParents(graph, commit_hash) ==
    IF commit_hash \in DOMAIN graph THEN graph[commit_hash] ELSE <<>>

\* commit.parent_hashes[0] if commit.parent_hashes else None
WalkFirstParent(graph, commit_hash) ==
    IF WalkParents(graph, commit_hash) = <<>> THEN NoId
    ELSE WalkParents(graph, commit_hash)[1]

\* one iteration of `while stack` of get_all_ancestors; when the stack is
\* empty the set is returned, to the caller's loop in find_common_ancestor
get_all_ancestors_step ==
    /\ pure.pc = "stack_loop"
    /\ IF pure.stack = <<>>
       THEN IF pure.fn = "get_all_ancestors"
            THEN pure' = [pure EXCEPT !.pc = "done"]
            ELSE pure' = [pure EXCEPT !.pc = "first_parent_loop", !.log = <<>>]
       ELSE LET current == pure.stack[Len(pure.stack)]
                rest == SubSeq(pure.stack, 1, Len(pure.stack) - 1)
            IN  IF Seen(current, pure.ancestors)
                THEN pure' = [pure EXCEPT !.stack = rest]
                ELSE pure' = [pure EXCEPT
                                !.stack = rest \o WalkParents(pure.graph, current),
                                !.ancestors = pure.ancestors \cup {current},
                                !.log = Append(pure.log, current)]
    /\ UNCHANGED <<objects, HEAD, heads, index, MERGE_HEAD, MERGE_MSG, work, now, last, stash, tags>>

\* one iteration of `while current and current not in visited` of
\* is_ancestor and of find_common_ancestor
first_parent_step ==
    /\ pure.pc = "first_parent_loop"
    /\ LET current == pure.current
           found == IF pure.fn = "is_ancestor"
                    THEN current = pure.commit1
                    ELSE current \in pure.ancestors
       IN  IF current = NoId \/ Seen(current, pure.visited)
           THEN pure' = [pure EXCEPT !.pc = "done", !.result = NoId]
           ELSE IF found
           THEN pure' = [pure EXCEPT !.pc = "done", !.result = current]
           ELSE IF current \notin DOMAIN pure.graph
           THEN \* load_object raises: break
                pure' = [pure EXCEPT !.pc = "done", !.result = NoId,
                                     !.visited = pure.visited \cup {current},
                                     !.log = Append(pure.log, current)]
           ELSE pure' = [pure EXCEPT
                           !.current = WalkFirstParent(pure.graph, current),
                           !.visited = pure.visited \cup {current},
                           !.log = Append(pure.log, current)]
    /\ UNCHANGED <<objects, HEAD, heads, index, MERGE_HEAD, MERGE_MSG, work, now, last, stash, tags>>

NextWalk ==
    \/ get_all_ancestors_step
    \/ first_parent_step

\* the interpreter always runs the next iteration of a loop
SpecWalk == InitWalk /\ [][NextWalk]_vars /\ WF_vars(NextWalk)

(***************************************************************************)
(* A twelfth specification, for the tags: staging, commits, checkouts of   *)
(* commits, one stash, and the creation and deletion of tags.              *)
(***************************************************************************)
TagNames == {"v1"}
\* the messages of tag_create: none (None or the empty string) or a line
NoMessage == <<>>
TagMessages == {NoMessage, <<"t">>}

\* the Tag object of an annotated tag (the tagger is a fixed string)
Tag(object_hash, object_type, tag_name, message, timestamp) ==
    [kind |-> "tag", object_hash |-> object_hash, object_type |-> object_type,
     tag_name |-> tag_name, message |-> message, timestamp |-> timestamp]

IsTag(h) == h.kind = "tag"

\* `if annotated and message`
annotated_with_message(annotated, message) == annotated /\ message # NoMessage

\* tag_create(tag_name, commit_hash, message, annotated)
tag_create(tag_name, commit_hash, message, annotated) ==
    LET target_commit == IF commit_hash # None THEN commit_hash ELSE get_head_commit
    IN  IF target_commit = None
        THEN /\ last' = Result("tag", "no commits")
             /\ UNCHANGED <<objects, HEAD, heads, index, MERGE_HEAD, MERGE_MSG, work, now, stash, tags>>
        ELSE IF tag_name \in DOMAIN tags
        THEN /\ last' = Result("tag", "exists")
             /\ UNCHANGED <<objects, HEAD, heads, index, MERGE_HEAD, MERGE_MSG, work, now, stash, tags>>
        ELSE IF annotated_with_message(annotated, message)
        THEN \E timestamp \in now..MaxTime :
                LET tag_obj == Tag(target_commit, "commit", tag_name, message, timestamp)
                IN  /\ objects' = store_object(objects, tag_obj)
                    /\ tags' = Update(tags, [t \in {tag_name} |-> tag_obj])
                    /\ now' = timestamp
                    /\ last' = Result("tag", "annotated")
                    /\ UNCHANGED <<HEAD, heads, index, MERGE_HEAD, MERGE_MSG, work, stash>>
        ELSE /\ tags' = Update(tags, [t \in {tag_name} |-> target_commit])
             /\ last' = Result("tag", "created")
             /\ UNCHANGED <<objects, HEAD, heads, index, MERGE_HEAD, MERGE_MSG, work, now, stash>>

\* tag_delete(tag_name)
tag_delete(tag_name) ==
    IF tag_name \notin DOMAIN tags
    THEN /\ last' = Result("tag", "not found")
         /\ UNCHANGED <<objects, HEAD, heads, index, MERGE_HEAD, MERGE_MSG, work, now, stash, tags>>
    ELSE /\ tags' = Without(tags, {tag_name})
         /\ last' = Result("tag", "deleted")
         /\ UNCHANGED <<objects, HEAD, heads, index, MERGE_HEAD, MERGE_MSG, work, now, stash>>

\* the most Tag objects of a store
MaxTags == 1

TagBounds == Cardinality({o \in objects : IsTag(o)}) <= MaxTags

TagCreate == \E tag_name \in TagNames, commit_hash \in {None} \cup StoredCommits,
                message \in TagMessages, annotated \in BOOLEAN :
                /\ tag_create(tag_name, commit_hash, message, annotated)
                /\ TagBounds'
                /\ UNCHANGED pure

TagDelete == \E tag_name \in TagNames : tag_delete(tag_name) /\ UNCHANGED pure

NextTag ==
    \/ Add
    \/ DoCommit
    \/ CheckoutId
    \/ StashForged
    \/ TagCreate
    \/ TagDelete

SpecTag == Init /\ [][NextTag]_vars

(***************************************************************************)
(* A thirteenth specification, for the references a commit leaves alone:   *)
(* staging, commits, checkouts of commits, branches, one stash and         *)
(* lightweight tags of HEAD.                                               *)
(***************************************************************************)
TagHead == \E tag_name \in TagNames :
              tag_create(tag_name, None, NoMessage, FALSE) /\ UNCHANGED pure

NextRefs ==
    \/ Add
    \/ DoCommit
    \/ CheckoutId
    \/ Branch
    \/ StashForged
    \/ TagHead

SpecRefs == Init /\ [][NextRefs]_vars

(***************************************************************************)
(* Properties.                                                             *)
(***************************************************************************)
\* the commit objects a step adds to the store
NewCommits == StoredCommits' \ StoredCommits

\* a step of commit() that created a commit
CommitCreated ==
    /\ \E message \in Messages : commit(message)
    /\ last' = Result("commit", "created")

\* what HEAD resolved to before the call, as a parent list
PriorHead == IF get_head_commit # None THEN <<get_head_commit>> ELSE <<>>

\* C1: after every successful commit the index is empty and HEAD resolves
\* to the commit just made (the one whose tree is built from the staged
\* index): through the unchanged symbolic HEAD and the current branch ref
\* when attached, through HEAD itself when detached; no other commit object
\* is added.
C1_CommitMovesHead ==
    [][CommitCreated =>
        LET made == get_head_commit'
        IN  /\ index' = EmptyMap
            /\ made \in StoredCommits'
            /\ made.tree_hash = create_tree_from_index(index)
            /\ NewCommits \subseteq {made}
            /\ IF HEAD.sym
               THEN HEAD' = HEAD /\ HEAD.target \in DOMAIN heads'
                    /\ heads'[HEAD.target] = made
               ELSE HEAD' = Detached(made) /\ heads' = heads]_vars

\* C1 witness: a commit was just created on a detached HEAD
C1_Witness ==
    /\ last = Result("commit", "created")
    /\ ~HEAD.sym
    /\ index = EmptyMap
    /\ Len(HEAD.target.parent_hashes) = 1

\* C2: a successful commit made while MERGE_HEAD is absent has exactly the
\* parent list [the commit HEAD resolved to before], or [] when HEAD
\* resolved to nothing.
C2_NonMergeParents ==
    [][(CommitCreated /\ MERGE_HEAD = NoFile) =>
        get_head_commit'.parent_hashes = PriorHead]_vars

\* C2 witness: a commit with one parent was just created outside a merge,
\* in a store that also holds a root commit
C2_Witness ==
    /\ last = Result("commit", "created")
    /\ MERGE_HEAD = NoFile
    /\ Len(get_head_commit.parent_hashes) = 1
    /\ get_head_commit.parent_hashes[1] \in StoredCommits

\* the first-parent chain of a commit, the commit included
RECURSIVE FirstParentChain(_)
FirstParentChain(h) ==
    IF h = None THEN {}
    ELSE {h} \cup (IF Len(h.parent_hashes) > 0
                   THEN FirstParentChain(h.parent_hashes[1]) ELSE {})

\* merge(branch_name, no_ff) is not rejected up front: HEAD is attached to
\* another branch than branch_name, and both branches have a tip
MergeAccepted(branch_name) ==
    /\ HEAD.sym
    /\ branch_name # HEAD.target
    /\ branch_name \in DOMAIN heads
    /\ HEAD.target \in DOMAIN heads

\* C3: merge(branch, no_ff = false), when the HEAD commit is on the
\* first-parent chain of the branch tip and differs from it, fast-forwards:
\* no commit object is added, the current branch ref (and so HEAD) is the
\* branch tip afterwards, and the index is empty.
C3_FastForward ==
    [][\A branch_name \in BranchNames :
        (/\ merge(branch_name, FALSE)
         /\ MergeAccepted(branch_name)
         /\ heads[HEAD.target] # heads[branch_name]
         /\ heads[HEAD.target] \in FirstParentChain(heads[branch_name]))
        => /\ StoredCommits' = StoredCommits
           /\ HEAD' = HEAD
           /\ heads'[HEAD.target] = heads[branch_name]
           /\ get_head_commit' = heads[branch_name]
           /\ index' = EmptyMap]_vars

\* C3 witness: a fast-forward just moved the current branch to the tip of
\* the other branch, a commit with a parent
C3_Witness ==
    /\ last = Result("merge", "fast-forward")
    /\ HEAD.sym
    /\ \E b \in DOMAIN heads : b # HEAD.target /\ heads[b] = get_head_commit
    /\ Len(get_head_commit.parent_hashes) = 1
    /\ index = EmptyMap

\* C4: a three-way merge without conflicts stores one commit: its parents
\* are [the HEAD commit before the merge, the branch tip] in that order,
\* its tree is the tree built from the merged index, the current branch ref
\* moves to it and the index is left empty; no other commit object is added.
C4_CleanMerge ==
    [][\A branch_name \in BranchNames, no_ff \in BOOLEAN :
        (/\ merge(branch_name, no_ff)
         /\ last' = Result("merge", "merged"))
        => LET made == get_head_commit'
               prior == heads[HEAD.target]
               tip == heads[branch_name]
               merged_index ==
                   three_way_merged(
                       get_commit_file_index(find_common_ancestor(prior, tip)),
                       get_commit_file_index(prior),
                       get_commit_file_index(tip))
           IN  /\ made \in StoredCommits'
               /\ NewCommits \subseteq {made}
               /\ made.parent_hashes = <<prior, tip>>
               /\ made.tree_hash = create_tree_from_index(merged_index)
               /\ HEAD' = HEAD
               /\ heads'[HEAD.target] = made
               /\ index' = EmptyMap]_vars

\* C4 witness: a clean three-way merge just created a two-parent commit
C4_Witness ==
    /\ last = Result("merge", "merged")
    /\ Len(get_head_commit.parent_hashes) = 2
    /\ index = EmptyMap

\* C8: merge(branch) is rejected and changes nothing when HEAD is detached,
\* when branch is the current branch, when the branch ref does not exist,
\* and when the branch tip is the HEAD commit.
C8_MergeRejected ==
    [][\A branch_name \in BranchNames, no_ff \in BOOLEAN :
        (/\ merge(branch_name, no_ff)
         /\ \/ ~HEAD.sym
            \/ branch_name = HEAD.target
            \/ branch_name \notin DOMAIN heads
            \/ /\ HEAD.target \in DOMAIN heads
               /\ heads[HEAD.target] = heads[branch_name])
        => UNCHANGED <<objects, HEAD, heads, index, MERGE_HEAD, MERGE_MSG, work>>]_vars

\* C8 witness: a merge was just rejected on a detached HEAD while a branch
\* with another tip exists
C8_Witness ==
    /\ last = Result("merge", "detached")
    /\ ~HEAD.sym
    /\ \E b \in DOMAIN heads : heads[b] # HEAD.target

\* the parent list of the commit rule: [HEAD, MERGE_HEAD] (or [MERGE_HEAD]
\* when HEAD is null) during a merge, else [HEAD] or []
ParentsByRule ==
    IF MERGE_HEAD # NoFile THEN PriorHead \o <<MERGE_HEAD>> ELSE PriorHead

\* C9: commit reports "nothing to commit" when there is exactly one parent
\* and the tree built from the index is that parent's tree; HEAD, the refs,
\* the index and the merge state are unchanged and no commit is stored.
C9_NothingToCommit ==
    [][\A message \in Messages :
        (/\ commit(message)
         /\ Len(ParentsByRule) = 1
         /\ create_tree_from_index(index) = ParentsByRule[1].tree_hash)
        => /\ last' = Result("commit", "nothing")
           /\ UNCHANGED <<HEAD, heads, index, MERGE_HEAD, MERGE_MSG>>
           /\ StoredCommits' = StoredCommits]_vars

\* C9 witness: commit just refused a non-empty index whose tree is the
\* tree of the HEAD commit
C9_Witness ==
    /\ last = Result("commit", "nothing")
    /\ index # EmptyMap
    /\ get_head_commit # None
    /\ create_tree_from_index(index) = get_head_commit.tree_hash

\* the three-way merge of the current branch with branch_name: its inputs
\* and results
ThreeWay(branch_name) ==
    LET prior == heads[HEAD.target]
        tip == heads[branch_name]
        base == find_common_ancestor(prior, tip)
    IN  [prior |-> prior, tip |-> tip, base |-> base,
         merged |-> three_way_merged(get_commit_file_index(base),
                                     get_commit_file_index(prior),
                                     get_commit_file_index(tip)),
         conflicts |-> three_way_conflicts(get_commit_file_index(base),
                                           get_commit_file_index(prior),
                                           get_commit_file_index(tip))]

\* merge(branch_name, no_ff) reaches the three-way merge: it is accepted,
\* the tips differ, it is no fast-forward and there is a common ancestor
IsThreeWay(branch_name, no_ff) ==
    /\ MergeAccepted(branch_name)
    /\ heads[HEAD.target] # heads[branch_name]
    /\ no_ff \/ heads[HEAD.target] \notin FirstParentChain(heads[branch_name])
    /\ ThreeWay(branch_name).base # None

\* C5: a three-way merge that finds a conflict creates no commit and leaves
\* HEAD and every branch ref unchanged; afterwards MERGE_HEAD is the tip of
\* the merged branch, MERGE_MSG is present, and the saved index is the
\* merged index, which has an entry for every conflicted path.
C5_ConflictingMerge ==
    [][\A branch_name \in BranchNames, no_ff \in BOOLEAN :
        (/\ merge(branch_name, no_ff)
         /\ IsThreeWay(branch_name, no_ff)
         /\ ThreeWay(branch_name).conflicts # {})
        => /\ StoredCommits' = StoredCommits
           /\ HEAD' = HEAD
           /\ heads' = heads
           /\ MERGE_HEAD' = heads[branch_name]
           /\ MERGE_MSG' # NoFile
           /\ index' = ThreeWay(branch_name).merged
           /\ ThreeWay(branch_name).conflicts \subseteq DOMAIN index']_vars

\* C5 witness: a merge just stopped on a conflict: MERGE_HEAD is the tip of
\* another branch and a working file carries the conflict markers
C5_Witness ==
    /\ last = Result("merge", "conflicts")
    /\ HEAD.sym
    /\ \E b \in DOMAIN heads : b # HEAD.target /\ MERGE_HEAD = heads[b]
    /\ MERGE_MSG # NoFile
    /\ index # EmptyMap
    /\ \E f \in DOMAIN work : work[f][1] = "<<<<<<< HEAD"

\* C6: commit called directly after a conflicting merge (MERGE_HEAD present,
\* HEAD resolving to a commit) creates a commit whose parents are
\* [HEAD commit, MERGE_HEAD] in that order, and afterwards MERGE_HEAD and
\* MERGE_MSG are absent.
C6_CommitConcludesMerge ==
    [][\A message \in Messages :
        (/\ commit(message)
         /\ last = Result("merge", "conflicts")
         /\ MERGE_HEAD # NoFile
         /\ get_head_commit # None)
        => /\ last' = Result("commit", "created")
           /\ get_head_commit' \in NewCommits
           /\ get_head_commit'.parent_hashes = <<get_head_commit, MERGE_HEAD>>
           /\ MERGE_HEAD' = NoFile
           /\ MERGE_MSG' = NoFile]_vars

\* C6 witness: commit just made a two-parent commit that holds the merged
\* index of its parents, and the merge state is gone
C6_Witness ==
    /\ last = Result("commit", "created")
    /\ MERGE_HEAD = NoFile
    /\ MERGE_MSG = NoFile
    /\ Len(get_head_commit.parent_hashes) = 2
    /\ LET p1 == get_head_commit.parent_hashes[1]
           p2 == get_head_commit.parent_hashes[2]
       IN  /\ p1 # p2
           /\ get_head_commit.tree_hash =
                 create_tree_from_index(
                     three_way_merged(
                         get_commit_file_index(find_common_ancestor(p1, p2)),
                         get_commit_file_index(p1),
                         get_commit_file_index(p2)))

\* the state scenario 3 builds: topic and the current branch each made one
\* commit on the base commit, which has path pa; topic's commit staged a
\* changed pa, the current branch's commit staged the new path pb
Scenario3(branch_name, pa, pb) ==
    /\ MergeAccepted(branch_name)
    /\ MERGE_HEAD = NoFile
    /\ LET mine == heads[HEAD.target]
           theirs == heads[branch_name]
       IN  /\ Len(mine.parent_hashes) = 1
           /\ theirs.parent_hashes = mine.parent_hashes
           /\ mine # theirs
           /\ LET base == mine.parent_hashes[1]
              IN  /\ pa \in DOMAIN get_commit_file_index(base)
                  /\ pb \notin DOMAIN get_commit_file_index(base)
                  /\ pa \in DOMAIN get_commit_file_index(theirs)
                  /\ get_commit_file_index(theirs)[pa] # get_commit_file_index(base)[pa]
                  /\ pb \notin DOMAIN get_commit_file_index(theirs)
                  /\ pb \in DOMAIN get_commit_file_index(mine)

\* C7: in scenario 3, merge(topic) reports no conflict and creates a merge
\* commit with the two parents [current tip, topic tip] whose tree has
\* topic's pa and the current branch's pb.
C7_Scenario3 ==
    [][\A branch_name \in BranchNames, no_ff \in BOOLEAN :
       \A pa \in Paths, pb \in Paths :
        (/\ merge(branch_name, no_ff)
         /\ pa # pb
         /\ Scenario3(branch_name, pa, pb))
        => LET made == get_head_commit'
               result == get_commit_file_index(made)
           IN  /\ last' = Result("merge", "merged")
               /\ made.parent_hashes = <<heads[HEAD.target], heads[branch_name]>>
               /\ pa \in DOMAIN result
               /\ result[pa] = get_commit_file_index(heads[branch_name])[pa]
               /\ pb \in DOMAIN result
               /\ result[pb] = get_commit_file_index(heads[HEAD.target])[pb]]_vars

\* C10 as stated: whenever MERGE_HEAD is present, commit creates a commit
\* with the parents [HEAD, MERGE_HEAD], whatever the index holds, the empty
\* index included.
C10_AsStated ==
    [][\A message \in Messages :
        (/\ commit(message)
         /\ MERGE_HEAD # NoFile)
        => /\ last' = Result("commit", "created")
           /\ get_head_commit'.parent_hashes = <<get_head_commit, MERGE_HEAD>>]_vars

\* C10: whenever MERGE_HEAD is present, HEAD resolves to a commit and the
\* index is not empty, commit creates a commit with the parents
\* [HEAD, MERGE_HEAD] and the tree of the index, also when that tree is the
\* tree of a parent; with an empty index it reports "nothing to commit",
\* stores no commit and keeps the merge state.
C10_MergeCommitGuard ==
    [][\A message \in Messages :
        (/\ commit(message)
         /\ MERGE_HEAD # NoFile)
        => IF index = EmptyMap
           THEN /\ last' = Result("commit", "nothing")
                /\ StoredCommits' = StoredCommits
                /\ UNCHANGED <<HEAD, heads, index, MERGE_HEAD, MERGE_MSG>>
           ELSE get_head_commit # None
                => /\ last' = Result("commit", "created")
                   /\ get_head_commit'.parent_hashes = <<get_head_commit, MERGE_HEAD>>
                   /\ get_head_commit'.tree_hash = create_tree_from_index(index)]_vars

\* C10 witness: commit just concluded a merge with a commit that has the
\* tree of its first parent
C10_Witness ==
    /\ last = Result("commit", "created")
    /\ Len(get_head_commit.parent_hashes) = 2
    /\ get_head_commit.tree_hash = get_head_commit.parent_hashes[1].tree_hash
    /\ MERGE_HEAD = NoFile

\* the commits reached from x over all parent edges, x included
RECURSIVE Ancestors(_)
Ancestors(x) ==
    {x} \cup UNION {Ancestors(x.parent_hashes[i]) : i \in 1..Len(x.parent_hashes)}

\* C11: whenever find_common_ancestor(a, b) returns a commit c, c is in
\* ancestors(a) and in ancestors(b), the sets reached from a and from b over
\* all parent edges, a and b included.
C11_CommonAncestor ==
    \A a \in StoredCommits, b \in StoredCommits :
        LET c == find_common_ancestor(a, b)
        IN  c # None => c \in Ancestors(a) /\ c \in Ancestors(b)

\* C11 witness: the store holds two commits whose common ancestor is a
\* third commit, and a merge commit whose common ancestor with its second
\* parent is reached over the second-parent edge only
C11_Witness ==
    /\ \E a \in StoredCommits, b \in StoredCommits :
          /\ find_common_ancestor(a, b) \in StoredCommits
          /\ find_common_ancestor(a, b) \notin {a, b}
    /\ \E a \in StoredCommits :
          /\ Len(a.parent_hashes) = 2
          /\ a.parent_hashes[2] \notin FirstParentChain(a)
          /\ find_common_ancestor(a, a.parent_hashes[2]) = a.parent_hashes[2]

\* C12: over the commits of a history built by the operations, is_ancestor
\* is reflexive and antisymmetric.
C12_AncestorOrder ==
    \A a \in StoredCommits, b \in StoredCommits :
        /\ is_ancestor(a, a)
        /\ (is_ancestor(a, b) /\ is_ancestor(b, a)) => a = b

\* C12 witness: the store holds a commit and its parent, related one way
\* only, and a merge commit whose second parent is not on its chain
C12_Witness ==
    /\ \E a \in StoredCommits, b \in StoredCommits :
          a # b /\ is_ancestor(a, b) /\ ~is_ancestor(b, a)
    /\ \E m \in StoredCommits :
          /\ Len(m.parent_hashes) = 2
          /\ ~is_ancestor(m.parent_hashes[2], m)

\* C13: in every reachable state every blob id that is a value of the index
\* is the id of an object of the store.
C13_IndexBlobsStored == \A p \in DOMAIN index : index[p] \in objects

\* C14: the object store is write-once: no operation removes an object, so
\* the set of stored objects only grows.
C14_WriteOnce == [][objects \subseteq objects']_vars

\* C15: tree building is deterministic: two index files with the same path
\* to blob id mapping give the same tree id, whatever the order in which
\* the paths were added.
C15_Deterministic ==
    pure.fn = "create_tree_from_index" => pure.tree = pure.other_tree

\* C16: for every tree reachable from a tree the builder made for a commit,
\* building a tree from the flat index obtained by walking it gives the same
\* tree id.
C16_RoundTrip == pure.fn = "round_trip" => pure.rebuilt = pure.tree

\* a tree with a subdirectory and a file was walked and built again
C16_Witness ==
    /\ pure.fn = "round_trip"
    /\ Len(pure.items) >= 2
    /\ \E e \in pure.tree.entries : e[1] = "40000"

\* the flat path -> blob id mapping of the tree of a stored commit
TreeIndex(commit_hash) == build_index_from_tree(commit_hash.tree_hash, <<>>)

\* C17: checkout of the id C of a stored commit leaves HEAD holding the
\* literal id C (detached), changes no branch ref, leaves the index empty,
\* leaves every path of C's tree in the working directory with the content
\* of C's blob, and leaves no file of the previous HEAD's tree that is not in
\* C's tree.
C17_CheckoutCommit ==
    [][\A C \in StoredCommits :
          checkout(HexTarget(C), FALSE) =>
             LET previous == get_head_commit
                 previous_files == IF previous = None THEN {}
                                   ELSE DOMAIN TreeIndex(previous)
             IN  /\ HEAD' = Detached(C)
                 /\ is_detached_head'
                 /\ heads' = heads
                 /\ index' = EmptyMap
                 /\ \A p \in DOMAIN TreeIndex(C) :
                       p \in DOMAIN work' /\ work'[p] = TreeIndex(C)[p].content
                 /\ \A p \in previous_files \ DOMAIN TreeIndex(C) :
                       p \notin DOMAIN work']_vars

\* HEAD is detached at a commit whose files are in the working directory,
\* and a file of another commit's tree, not in this one, is absent
C17_Witness ==
    /\ is_detached_head
    /\ HEAD.target \in StoredCommits
    /\ index = EmptyMap
    /\ DOMAIN TreeIndex(HEAD.target) # {}
    /\ \A p \in DOMAIN TreeIndex(HEAD.target) :
          p \in DOMAIN work /\ work[p] = TreeIndex(HEAD.target)[p].content
    /\ \E c \in StoredCommits :
          \E p \in DOMAIN TreeIndex(c) :
             p \notin DOMAIN TreeIndex(HEAD.target) /\ p \notin DOMAIN work

\* C18 as stated: reset(C, hard) on an attached HEAD moves the current
\* branch ref to C, leaves the index empty and restores C's working
\* directory.
C18_AsStated ==
    [][\A C \in StoredCommits :
          (~is_detached_head /\ reset(C, "hard")) =>
             /\ get_branch_commit(get_current_branch)' = C
             /\ index' = EmptyMap
             /\ \A p \in DOMAIN TreeIndex(C) :
                   p \in DOMAIN work' /\ work'[p] = TreeIndex(C)[p].content]_vars

\* C18: reset(C, hard) on an attached HEAD moves the current branch ref to
\* C, leaves HEAD attached to that branch, sets the index to the flat path
\* to blob id mapping of C's tree (empty only when the tree is empty) and
\* restores C's working directory: every path of C's tree holds the content
\* of C's blob.
C18_ResetHard ==
    [][\A C \in StoredCommits :
          (~is_detached_head /\ reset(C, "hard")) =>
             /\ HEAD' = HEAD
             /\ get_branch_commit(get_current_branch)' = C
             /\ index' = TreeIndex(C)
             /\ \A p \in DOMAIN TreeIndex(C) :
                   p \in DOMAIN work' /\ work'[p] = TreeIndex(C)[p].content]_vars

\* the current branch was moved back to a commit with files: its child is
\* on no branch, the index is the mapping of its tree and the working
\* directory holds exactly its files
C18_Witness ==
    /\ ~is_detached_head
    /\ get_head_commit \in StoredCommits
    /\ index = TreeIndex(get_head_commit)
    /\ index # EmptyMap
    /\ work = BlobContents(index)
    /\ \E c \in StoredCommits :
          /\ c.parent_hashes = <<get_head_commit>>
          /\ \A b \in DOMAIN heads : heads[b] # c

\* C19: the stash round trip.  A stash save with a non-empty index I and an
\* empty stash leaves the index empty and one entry holding I; the index is
\* empty while the save is the last operation; a stash pop right after that
\* save leaves the index equal to I, the files of the paths of I holding the
\* content of the staged blobs, and the stash empty.
C19_StashRoundTrip ==
    [][/\ \A message \in StashMessages :
             (index # EmptyMap /\ stash = <<>> /\ stash_save(message)) =>
                /\ index' = EmptyMap
                /\ Len(stash') = 1
                /\ stash'[1].index = index
       /\ (last' = Result("stash", "saved") /\ Len(stash') = 1) => index' = EmptyMap
       /\ (last = Result("stash", "saved") /\ Len(stash) = 1 /\ stash_pop(0)) =>
             LET I == stash[1].index
             IN  /\ I # EmptyMap
                 /\ index' = I
                 /\ \A p \in DOMAIN I : p \in DOMAIN work' /\ work'[p] = I[p].content
                 /\ stash' = <<>>]_vars

\* a pop emptied the stash and left a staged path whose file holds the
\* content of the staged blob
C19_Witness ==
    /\ last = Result("stash", "popped")
    /\ stash = <<>>
    /\ index # EmptyMap
    /\ \A p \in DOMAIN index : p \in DOMAIN work /\ work[p] = index[p].content

\* C20: the non-conflict rules of three_way_merge, for every path of the
\* three indices: when current and branch agree the merged index has that
\* value (or omits the path); when current equals base and branch differs it
\* has branch's value (or omits the path when branch deleted it); when
\* branch equals base and current differs it has current's value (or omits
\* the path when current deleted it); none of these paths is a conflict.
C20_NonConflictRules ==
    pure.fn = "three_way_merge" =>
       \A f \in (DOMAIN pure.base) \cup (DOMAIN pure.current) \cup (DOMAIN pure.branch) :
          LET base_hash == Get(pure.base, f)
              current_hash == Get(pure.current, f)
              branch_hash == Get(pure.branch, f)
          IN  /\ current_hash = branch_hash =>
                    Get(pure.merged, f) = current_hash /\ f \notin pure.conflicts
              /\ (current_hash = base_hash /\ branch_hash # base_hash) =>
                    Get(pure.merged, f) = branch_hash /\ f \notin pure.conflicts
              /\ (branch_hash = base_hash /\ current_hash # base_hash) =>
                    Get(pure.merged, f) = current_hash /\ f \notin pure.conflicts

\* a merge where one path was changed by the branch only and another was
\* deleted by the current side only
C20_Witness ==
    /\ pure.fn = "three_way_merge"
    /\ \E f \in DOMAIN pure.base, g \in DOMAIN pure.base :
          /\ f # g
          /\ Get(pure.current, f) = pure.base[f]
          /\ Get(pure.branch, f) \notin {pure.base[f], None}
          /\ pure.merged[f] = pure.branch[f]
          /\ Get(pure.branch, g) = pure.base[g]
          /\ g \notin DOMAIN pure.current
          /\ g \notin DOMAIN pure.merged
    /\ pure.conflicts = {}

\* C21: three_way_merge reports a path as a conflict exactly when current
\* and branch both differ from base and from each other (a path one side
\* modified and the other deleted included); the merged index holds for a
\* conflicted path current's blob id when current has the path and else
\* branch's, so every conflicted path is a key of the merged index.
C21_ConflictRule ==
    pure.fn = "three_way_merge" =>
       /\ \A f \in (DOMAIN pure.base) \cup (DOMAIN pure.current) \cup (DOMAIN pure.branch) :
             LET base_hash == Get(pure.base, f)
                 current_hash == Get(pure.current, f)
                 branch_hash == Get(pure.branch, f)
             IN  /\ f \in pure.conflicts <=>
                       /\ current_hash # base_hash
                       /\ branch_hash # base_hash
                       /\ current_hash # branch_hash
                 /\ f \in pure.conflicts =>
                       /\ f \in DOMAIN pure.merged
                       /\ pure.merged[f] = IF f \in DOMAIN pure.current
                                           THEN pure.current[f] ELSE pure.branch[f]
       /\ pure.conflicts \subseteq DOMAIN pure.merged

\* a merge with a path both sides modified differently and a path current
\* deleted and branch modified
C21_Witness ==
    /\ pure.fn = "three_way_merge"
    /\ \E f \in pure.conflicts, g \in pure.conflicts :
          /\ f \in DOMAIN pure.current /\ f \in DOMAIN pure.branch
          /\ f \in DOMAIN pure.base
          /\ g \notin DOMAIN pure.current /\ g \in DOMAIN pure.branch
          /\ pure.merged[g] = pure.branch[g]

\* C22: after a conflicting merge, the working file of every conflicted
\* path that both sides have holds "<<<<<<< HEAD", the content of the blob
\* of the HEAD commit's tree, "=======", the content of the blob of the
\* branch tip's tree and ">>>>>>> MERGE_HEAD".
C22_ConflictFile ==
    [][\A branch_name \in BranchNames, no_ff \in BOOLEAN :
        (/\ merge(branch_name, no_ff)
         /\ IsThreeWay(branch_name, no_ff)
         /\ ThreeWay(branch_name).conflicts # {})
        => LET current_index == get_commit_file_index(ThreeWay(branch_name).prior)
               branch_index == get_commit_file_index(ThreeWay(branch_name).tip)
           IN  \A f \in ThreeWay(branch_name).conflicts :
                  (f \in DOMAIN current_index /\ f \in DOMAIN branch_index) =>
                     /\ f \in DOMAIN work'
                     /\ work'[f] = conflict_content(current_index[f].content,
                                                    branch_index[f].content)]_vars

\* C23: checkout enters detached HEAD only at a commit: whenever HEAD is
\* detached it holds the id of a commit object, never the id of a blob or a
\* tree.
C23_DetachedAtCommit == is_detached_head => IsCommit(HEAD.target)

\* the paths of the tree of the commit HEAD resolves to, none when HEAD
\* resolves to no commit
PriorTreeFiles ==
    IF get_head_commit = None THEN {} ELSE DOMAIN TreeIndex(get_head_commit)

\* C24: checkout, to a branch or to a commit, preserves the working files
\* that are not tracked: every working file whose path is not in the tree of
\* the commit HEAD resolved to before the checkout exists afterwards with
\* the same content.
C24_CheckoutKeepsUntracked ==
    [][\A target \in {NameTarget(name) : name \in BranchNames}
                     \cup {HexTarget(c) : c \in StoredCommits},
          create_branch \in BOOLEAN :
          checkout(target, create_branch) =>
             \A p \in (DOMAIN work) \ PriorTreeFiles :
                p \in DOMAIN work' /\ work'[p] = work[p]]_vars

\* C25: reset(C, hard) preserves the working files that are not tracked: a
\* working file whose path is in neither the index, nor the tree of the
\* previous HEAD commit, nor C's tree exists afterwards with the same
\* content.
C25_ResetHardKeepsUntracked ==
    [][\A C \in StoredCommits :
          reset(C, "hard") =>
             \A p \in (DOMAIN work) \ (DOMAIN index \cup PriorTreeFiles
                                         \cup DOMAIN TreeIndex(C)) :
                p \in DOMAIN work' /\ work'[p] = work[p]]_vars

\* reset moved the HEAD target to C: the current branch ref when attached
\* (HEAD and every other ref unchanged), HEAD itself when detached (every
\* ref unchanged)
HeadTargetMoved(C) ==
    IF is_detached_head
    THEN HEAD' = Detached(C) /\ heads' = heads
    ELSE /\ HEAD' = HEAD
         /\ DOMAIN heads' = (DOMAIN heads) \cup {get_current_branch}
         /\ heads'[get_current_branch] = C
         /\ \A b \in (DOMAIN heads) \ {get_current_branch} : heads'[b] = heads[b]

\* C26: reset(C, soft) for a stored commit C moves only the HEAD target to
\* C: the index, the working directory, every other ref, the merge state,
\* the stash and the object store are unchanged.
C26_ResetSoft ==
    [][\A C \in StoredCommits :
          reset(C, "soft") =>
             /\ HeadTargetMoved(C)
             /\ UNCHANGED <<objects, index, work, MERGE_HEAD, MERGE_MSG, stash>>]_vars

\* the current branch was moved back to a commit whose child is on no
\* branch, while the index holds a staged path that differs from the
\* commit's tree, the working directory holds a file the commit has not and
\* the stash holds an entry
C26_Witness ==
    /\ ~is_detached_head
    /\ get_head_commit \in StoredCommits
    /\ \E c \in StoredCommits :
          /\ c.parent_hashes = <<get_head_commit>>
          /\ \A b \in DOMAIN heads : heads[b] # c
    /\ index # EmptyMap
    /\ index # TreeIndex(get_head_commit)
    /\ \E p \in DOMAIN work : p \notin DOMAIN TreeIndex(get_head_commit)
    /\ stash # <<>>

\* C27: reset(C, mixed) for a stored commit C moves the HEAD target to C and
\* sets the index to exactly the flat path to blob id mapping of C's tree;
\* every working file is unchanged.
C27_ResetMixed ==
    [][\A C \in StoredCommits :
          reset(C, "mixed") =>
             /\ HeadTargetMoved(C)
             /\ index' = TreeIndex(C)
             /\ work' = work]_vars

\* HEAD is detached at a commit with a child, the index is the mapping of
\* the commit's tree and the working directory holds a file of the child
\* that the commit has not
C27_Witness ==
    /\ is_detached_head
    /\ HEAD.target \in StoredCommits
    /\ index = TreeIndex(HEAD.target)
    /\ index # EmptyMap
    /\ \E c \in StoredCommits :
          /\ c.parent_hashes = <<HEAD.target>>
          /\ \E p \in DOMAIN TreeIndex(c) :
                p \notin DOMAIN index /\ p \in DOMAIN work

\* the paths whose blob differs between the first parent of C and C
ChangedPaths(C) ==
    {f \in (DOMAIN TreeIndex(C.parent_hashes[1])) \cup (DOMAIN TreeIndex(C)) :
        Get(TreeIndex(C.parent_hashes[1]), f) # Get(TreeIndex(C), f)}

\* the flat mapping of the tree of the HEAD commit, empty without one
HeadSnapshot == IF get_head_commit = None THEN EmptyMap ELSE TreeIndex(get_head_commit)

\* C28: cherry_pick(C) marks a changed path as a conflict exactly when the
\* value of the HEAD snapshot for the path differs from the value of C's
\* first parent, a path the parent has and the snapshot has not included;
\* when no path is marked, every changed path has C's blob id in the index,
\* or is removed from it when C deleted it.
C28_CherryPickConflicts ==
    [][\A C \in StoredCommits :
          (cherry_pick(C) /\ C.parent_hashes # <<>>) =>
             LET parent_index == TreeIndex(C.parent_hashes[1])
                 marked == {f \in ChangedPaths(C) :
                               Get(HeadSnapshot, f) # Get(parent_index, f)}
             IN  /\ last'.conflicts = marked
                 /\ marked = {} =>
                       \A f \in ChangedPaths(C) :
                          Get(index', f) = Get(TreeIndex(C), f)]_vars

StackWithout(n) ==
    [i \in 1..(Len(stash) - 1) |-> IF i < n + 1 THEN stash[i] ELSE stash[i + 1]]

\* C30: the stash is a stack, newest first.  A save with a non-empty index
\* puts the new entry at position 0 and every existing entry one position
\* down, unaltered; a save with an empty index changes nothing; pop n and
\* drop n, for a position n of the stack, remove exactly the entry at n and
\* keep the order of the others; apply n leaves the stack unchanged.
C30_StashStack ==
    [][/\ \A message \in StashMessages :
             stash_save(message) =>
                IF index # EmptyMap
                THEN /\ Len(stash') = Len(stash) + 1
                     /\ stash'[1].index = index
                     /\ \A i \in 1..Len(stash) : stash'[i + 1] = stash[i]
                ELSE UNCHANGED <<objects, HEAD, heads, index, MERGE_HEAD,
                                 MERGE_MSG, work, stash>>
       /\ \A n \in 0..(Len(stash) - 1) :
             /\ stash_pop(n) => stash' = StackWithout(n)
             /\ stash_drop(n) => stash' = StackWithout(n)
       /\ \A n \in StashArgs : stash_apply(n) => stash' = stash]_vars

\* a drop just left one entry of two, and the index is empty
C30_Witness ==
    /\ last = Result("stash", "dropped")
    /\ Len(stash) = MaxStash - 1
    /\ index = EmptyMap

\* C31: stash pop n, apply n and drop n fail and leave the stash, the index
\* and the working directory unchanged whenever the stash is empty or n is
\* no position of it (n < 0 or n >= the number of entries).
C31_StashInvalidPosition ==
    [][\A n \in StashArgs :
          (/\ stash = <<>> \/ n < 0 \/ n >= Len(stash)
           /\ stash_pop(n) \/ stash_apply(n) \/ stash_drop(n))
          => UNCHANGED <<stash, index, work>>]_vars

\* C32: the history walks terminate on every parent graph, handcrafted
\* cycles, self-referential commits and missing parents included: every
\* call of get_all_ancestors, is_ancestor and find_common_ancestor returns,
\* and each of its loops visits a commit at most once.
C32_WalksTerminate ==
    /\ <>(pure.pc = "done")
    /\ [](\A i \in DOMAIN pure.log, j \in DOMAIN pure.log :
             pure.log[i] = pure.log[j] => i = j)

\* find_common_ancestor returned on a store where c1 and c2 are each
\* other's parent and c2 is also its own
C32_Witness ==
    /\ pure.fn = "find_common_ancestor"
    /\ pure.pc = "done"
    /\ pure.graph["c1"] = <<"c2">>
    /\ pure.graph["c2"] = <<"c2", "c1">>
    /\ pure.commit1 = "c1"
    /\ pure.commit2 = MissingId

\* C33: tag_create with annotated=true stores a Tag object that refers to
\* the target commit and writes the id of that object into the tag ref; a
\* tag_create that is not annotated stores no object and writes the commit
\* id into the ref; tag_create of a name that exists changes neither the
\* tag refs nor the object store.
C33_TagCreate ==
    [][\A tag_name \in TagNames, commit_hash \in {None} \cup StoredCommits,
          message \in TagMessages, annotated \in BOOLEAN :
          tag_create(tag_name, commit_hash, message, annotated) =>
             LET target_commit == IF commit_hash # None THEN commit_hash
                                  ELSE get_head_commit
             IN  /\ tag_name \in DOMAIN tags => UNCHANGED <<tags, objects>>
                 /\ (tag_name \notin DOMAIN tags /\ target_commit # None /\ annotated)
                    => /\ tag_name \in DOMAIN tags'
                       /\ IsTag(tags'[tag_name])
                       /\ tags'[tag_name] \in objects'
                       /\ tags'[tag_name].object_hash = target_commit
                 /\ (tag_name \notin DOMAIN tags /\ target_commit # None /\ ~annotated)
                    => /\ objects' = objects
                       /\ tag_name \in DOMAIN tags'
                       /\ tags'[tag_name] = target_commit]_vars

\* C34: checkout(name) of a name that is no branch (and no object id), with
\* create false, or with create true while HEAD resolves to no commit, is
\* rejected: HEAD, the branch refs, the tag refs, the index and the working
\* directory are unchanged, and so HEAD is not left attached to the name.
C34_CheckoutRejected ==
    [][\A name \in BranchNames, create_branch \in BOOLEAN :
          (/\ name \notin DOMAIN heads
           /\ ~create_branch \/ get_head_commit = None
           /\ checkout(NameTarget(name), create_branch))
          => /\ UNCHANGED <<HEAD, heads, tags, index, work>>
             /\ HEAD' = SymRef(name) => HEAD = SymRef(name)]_vars

\* an operation has been reported in a state where topic is no branch, HEAD
\* is attached to master and resolves to a commit, and a path is staged
C34_Witness ==
    /\ last = Result("checkout", "not found")
    /\ "topic" \notin DOMAIN heads
    /\ HEAD = SymRef("master")
    /\ get_head_commit # None
    /\ index # EmptyMap
    /\ work # EmptyMap

\* the branch refs other than that of the branch b are what they were
OtherHeadsUnchanged(b) ==
    /\ (DOMAIN heads') \ {b} = (DOMAIN heads) \ {b}
    /\ \A other \in (DOMAIN heads) \ {b} : heads'[other] = heads[other]

\* C35: a successful commit changes at most one reference: with HEAD
\* attached to a branch only the ref of that branch changes and HEAD keeps
\* its symbolic content; with HEAD detached only HEAD changes and no branch
\* ref does; the tag refs and the stash are unchanged in both cases.
C35_CommitMovesOneRef ==
    [][CommitCreated =>
          /\ tags' = tags
          /\ stash' = stash
          /\ IF is_detached_head
             THEN heads' = heads
             ELSE HEAD' = HEAD /\ OtherHeadsUnchanged(get_current_branch)]_vars

\* a detached commit was made while the branch topic, a tag and a stash
\* entry existed
C35_Witness ==
    /\ last = Result("commit", "created")
    /\ is_detached_head
    /\ HEAD.target \notin {heads[b] : b \in DOMAIN heads}
    /\ {"master", "topic"} \subseteq DOMAIN heads
    /\ "v1" \in DOMAIN tags
    /\ stash # <<>>

\* C36: in every reachable state MERGE_HEAD is present if and only if
\* MERGE_MSG is: the two are written together, by a merge that found
\* conflicts, and removed together, by a commit that succeeded, and no other
\* operation creates or removes either.
C36_MergeStatePaired ==
    /\ [](MERGE_HEAD = NoFile <=> MERGE_MSG = NoFile)
    /\ [][/\ (MERGE_HEAD' # MERGE_HEAD \/ MERGE_MSG' # MERGE_MSG)
             => \/ /\ last' = Result("merge", "conflicts")
                   /\ MERGE_HEAD' # NoFile
                   /\ MERGE_MSG' # NoFile
                \/ /\ last' = Result("commit", "created")
                   /\ MERGE_HEAD' = NoFile
                   /\ MERGE_MSG' = NoFile
          /\ (last' = Result("merge", "conflicts") /\ last # last')
             => MERGE_HEAD' # NoFile /\ MERGE_MSG' # NoFile
          /\ (last' = Result("commit", "created") /\ last # last')
             => MERGE_HEAD' = NoFile /\ MERGE_MSG' = NoFile]_vars

\* a merge has found conflicts and written both files
C36_Witness ==
    /\ last = Result("merge", "conflicts")
    /\ MERGE_HEAD # NoFile
    /\ MERGE_MSG # NoFile

\* C37: while MERGE_HEAD is present HEAD stays attached to the same branch
\* and resolves to the same commit as when the merge wrote MERGE_HEAD, so
\* that the commit concluding the merge has as its first parent the commit
\* that was HEAD when the merge ran.
C37_HeadFixedDuringMerge ==
    [][/\ (MERGE_HEAD # NoFile /\ MERGE_HEAD' # NoFile)
          => /\ HEAD' = HEAD
             /\ get_head_commit' = get_head_commit
       /\ (MERGE_HEAD # NoFile /\ CommitCreated)
          => \A c \in NewCommits : c.parent_hashes = <<get_head_commit, MERGE_HEAD>>]_vars

\* C38: once HEAD resolves to a commit it does so in every later state: no
\* operation makes get_head_commit return none, or leaves HEAD attached to
\* a branch whose ref file is missing.
C38_HeadKeepsResolving ==
    [][get_head_commit # None
       => /\ get_head_commit' # None
          /\ ~is_detached_head' => get_current_branch' \in DOMAIN heads']_vars

\* C39: the tree built from the index loses nothing: for every index file,
\* one holding both a path p and a path p/q included, create_tree_from_index
\* does not fail and returns a tree whose flat walk is the index exactly.
C39_TreeKeepsIndex ==
    pure.fn = "create_tree_from_index"
    => /\ pure.tree # TypeError
       /\ build_index_from_tree(pure.tree, <<>>) = Mapping(pure.items)

\* C40: merge(branch) when the tip of the branch is a proper ancestor of the
\* HEAD commit (the current branch already contains the branch) creates no
\* commit and leaves the branch refs, the index and the merge state
\* unchanged.
C40_MergeOfAncestor ==
    [][\A branch_name \in BranchNames, no_ff \in BOOLEAN :
          (/\ branch_name \in DOMAIN heads
           /\ get_head_commit # None
           /\ heads[branch_name] # get_head_commit
           /\ is_ancestor(heads[branch_name], get_head_commit)
           /\ merge(branch_name, no_ff))
          => /\ NewCommits = {}
             /\ UNCHANGED <<heads, index, MERGE_HEAD, MERGE_MSG>>]_vars

====
